---- MODULE Spec2Model ----
(***************************************************************************)
(* Checklist de Equipos (src/app.py and the revision                      *)
(* "check list - Despachos"): the spreadsheet-backed record store, the     *)
(* operator's submit handler, the supervisor's approve operation, the     *)
(* users (seed, login, administration) and the weekly export.             *)
(*                                                                         *)
(* The store is the record db, one sequence of data rows per worksheet     *)
(* (the header row of a sheet is row 1, so data row i is sheet row i + 1). *)
(* Every store call (get_all_values, append_row, delete_rows, update_cell) *)
(* is one step, so a state between two calls of one operation is a state   *)
(* of the model.  Spec, SpecForm, SpecRender, SpecUsers, SpecExport and   *)
(* SpecGate run one operation at a time; SpecShared and SpecReview         *)
(* interleave the store calls of two sessions.                             *)
(***************************************************************************)
EXTENDS Integers, Sequences, FiniteSets, TLC

VARIABLES db, now, canvas, deploy, login, ses, out

vars == <<db, now, canvas, deploy, login, ses, out>>

-----------------------------------------------------------------------------
(* Bounds of the model *)

\* the store is filled up to this many submission rows
MaxSubs == 2
\* the clock (seconds) runs from 0 to MaxClock
MaxClock == 1

\* browser sessions; each runs the script top to bottom
Sessions == {1, 2}

\* the sessions that act when the operations come one at a time
Serial == {1}

-----------------------------------------------------------------------------
(* Program constants *)

\* signature_input: a canvas with fewer non-near-white pixels than this is blank
SigThreshold == 220

estados_opciones == <<"Operativo", "Operativo con falla", "Inoperativo">>

Estados == {estados_opciones[i] : i \in 1..Len(estados_opciones)}

Conformidad == {"Conforme", "No conforme"}

\* checklist_config.json after normalize_config: equipment with ordered items
CONFIG ==
    << [nombre |-> "Apilador 1", items |-> <<"I1", "I2">>],
       [nombre |-> "Apilador 2", items |-> <<"I1">>] >>

list_equipos == {CONFIG[i].nombre : i \in 1..Len(CONFIG)}

get_items_for_equipo(nombre_equipo) ==
    IF \E i \in 1..Len(CONFIG) : CONFIG[i].nombre = nombre_equipo
    THEN CONFIG[CHOOSE i \in 1..Len(CONFIG) :
                    /\ CONFIG[i].nombre = nombre_equipo
                    /\ \A j \in 1..(i-1) : CONFIG[j].nombre # nombre_equipo].items
    ELSE <<>>

-----------------------------------------------------------------------------
(* Optional values: None is the empty sequence, a value x is <<x>> *)

None == <<>>

Some(x) == <<x>>

-----------------------------------------------------------------------------
(* Key strings.  A key is the identifier it spells and the form it is      *)
(* spelled in: "exact" (as stored: upper case, no blanks), "lower" (lower  *)
(* case) or "pad" (the exact spelling with surrounding blanks).            *)

KeyForms == {"exact", "lower", "pad"}

\* str(x).strip()
Strip(k) == IF k.form = "pad" THEN [k EXCEPT !.form = "exact"] ELSE k

\* str(x).strip().lower()
StripLower(k) == [k EXCEPT !.form = "lower"]

\* random.choices(string.ascii_uppercase + string.digits, k=4): two ids made in
\* one second are equal when they draw the same suffix.  One suffix is kept:
\* two suffixes in one second give the ids that two seconds give
Suffixes == {"K7QZ"}

\* f"S{datetime.now():%Y%m%d%H%M%S}{4 random characters}"
make_submission_id(t, suffix) == [id |-> <<t, suffix>>, form |-> "exact"]

-----------------------------------------------------------------------------
(* Signatures.  An image is given by its count of non-near-white pixels.   *)

PixelCounts == {219, 220}

SigInputs == {None} \cup {Some([nonwhite |-> n]) : n \in PixelCounts}

\* base64.b64encode(png bytes).decode("utf-8")
B64(img) == [b64 |-> img]

\* signature_input: the canvas branch rejects a blank drawing, the upload
\* branch (no canvas component installed) encodes whatever file was given
signature_input(canvasAvailable, sig) ==
    IF canvasAvailable
    THEN IF sig = None THEN None
         ELSE IF sig[1].nonwhite < SigThreshold THEN None
         ELSE Some(B64(sig[1]))
    ELSE IF sig = None THEN None
         ELSE Some(B64(sig[1]))

-----------------------------------------------------------------------------
(* The worksheets *)

\* ws.append_row(row): the row goes after the last data row
ws_append(rows, row) == Append(rows, row)

\* ws.delete_rows(r): sheet row r is data row r - 1; the rows below move up
delete_rows(rows, r) ==
    IF r - 1 \in 1..Len(rows)
    THEN [i \in 1..(Len(rows) - 1) |-> IF i < r - 1 THEN rows[i] ELSE rows[i + 1]]
    ELSE rows

\* ws.update_cell(r, col, val)
update_cell(rows, r, col, val) ==
    IF r - 1 \in 1..Len(rows)
    THEN [rows EXCEPT ![r - 1] = [@ EXCEPT ![col] = val]]
    ELSE rows

RECURSIVE Ascending(_)
\* the numbers of a finite set, smallest first
Ascending(S) ==
    IF S = {} THEN <<>>
    ELSE LET m == CHOOSE x \in S : \A y \in S : x <= y
         IN  <<m>> \o Ascending(S \ {m})

\* rows_to_delete, were only the first matching row taken
rows_to_delete_first(data, submission_id) ==
    LET hits == Ascending({i + 1 : i \in {j \in 1..Len(data) :
                                Strip(data[j].submission_id) = submission_id}})
    IN  IF hits = <<>> THEN <<>> ELSE <<hits[1]>>

\* rows_to_delete, were the upsert an append alone
rows_to_delete_none(data, submission_id) == <<>>

\* rows_to_delete of upsert_submission_items, upsert_photos and the approvals
\* upsert: [i+1 for i in range(1, len(data)) if str(data[i][sid_idx]).strip() == submission_id]
rows_to_delete(data, submission_id) ==
    Ascending({i + 1 : i \in {j \in 1..Len(data) :
                                Strip(data[j].submission_id) = submission_id}})

\* FindRowIdx, were the scan not left at the first match (no break)
FindRowIdx_last(data, key_col, key_val) ==
    LET hits == Ascending({i + 1 : i \in {j \in 1..Len(data) :
                    StripLower(data[j][key_col]) = StripLower(key_val)}})
    IN  IF hits = <<>> THEN 0 ELSE hits[Len(hits)]

\* FindRowIdx, were the header row not counted (row_idx = i)
FindRowIdx_noheader(data, key_col, key_val) ==
    LET hits == Ascending({i \in 1..Len(data) :
                    StripLower(data[i][key_col]) = StripLower(key_val)})
    IN  IF hits = <<>> THEN 0 ELSE hits[1]

\* the scan of ws_update_row_by_key: the sheet row of the first data row whose
\* key equals key_val after strip().lower() on both sides, or 0 (row_idx None)
FindRowIdx(data, key_col, key_val) ==
    LET hits == Ascending({i + 1 : i \in {j \in 1..Len(data) :
                    StripLower(data[j][key_col]) = StripLower(key_val)}})
    IN  IF Len(data) < 1 THEN 0
        ELSE IF hits = <<>> THEN 0 ELSE hits[1]

\* next((r for r in records if str(r.get("submission_id")) == submission_id), None)
FirstExact(records, submission_id) ==
    LET hits == Ascending({j \in 1..Len(records) :
                              records[j].submission_id = submission_id})
    IN  IF hits = <<>> THEN None ELSE Some(records[hits[1]])

-----------------------------------------------------------------------------
(* The checklist form of the operator page *)

Falla == estados_opciones[2]

\* up: the uploader is rendered only for an item marked "Operativo con falla"
UpFile(estado, up, i) == estado[i] = Falla /\ i \in up

\* missing_photo, were the flag overwritten by each item in turn
missing_photo_last(items, estado, up) ==
    Len(items) > 0 /\ estado[Len(items)] = Falla /\ ~UpFile(estado, up, Len(items))

missing_photo(items, estado, up) ==
    \E i \in 1..Len(items) : estado[i] = Falla /\ ~UpFile(estado, up, i)

items_rows(sid, items, estado) ==
    [i \in 1..Len(items) |->
        [submission_id |-> sid, item_id |-> items[i], estado |-> estado[i]]]

RECURSIVE photos_rows_from(_, _, _, _, _)
photos_rows_from(sid, items, estado, up, i) ==
    IF i > Len(items) THEN <<>>
    ELSE (IF UpFile(estado, up, i)
          THEN <<[submission_id |-> sid, item_id |-> items[i]]>>
          ELSE <<>>)
         \o photos_rows_from(sid, items, estado, up, i + 1)

\* photos_rows, were a row appended for every item
photos_rows_all(sid, items, estado, up) ==
    [i \in 1..Len(items) |-> [submission_id |-> sid, item_id |-> items[i]]]

photos_rows(sid, items, estado, up) == photos_rows_from(sid, items, estado, up, 1)

-----------------------------------------------------------------------------
(* Sessions *)

IdleSes ==
    [pc |-> "idle", equipo |-> "", estado |-> <<>>, up |-> {}, sig |-> None,
     sid |-> None, conforme |-> "", firma |-> None, t0 |-> 0,
     rows |-> <<>>, photos |-> <<>>, todel |-> <<>>, row_idx |-> 0,
     sub |-> None, pdf |-> <<>>, pre |-> None, form |-> None, xlsx |-> None]

\* one script run at a time: the other sessions are between two runs
Alone(p) == \A q \in Sessions \ {p} : ses[q].pc = "idle"

\* what the last finished run showed (st.error, st.warning, st.success or the
\* exception it raised), and in which session
Shown(p, msg) == [who |-> p, msg |-> msg]

\* the two revisions of the application in the repository
Revisions == {"app", "despachos"}

\* the deployment: the revision of the application that runs (src/app.py or
\* the revision "check list - Despachos") and the secret ADMIN_RESET_PASSWORD
Deployment(rev, reset_pw) == [rev |-> rev, reset_pw |-> reset_pw]

Init ==
    /\ db = [submissions |-> <<>>, submission_items |-> <<>>,
             photos |-> <<>>, approvals |-> <<>>, users |-> <<>>]
    /\ now = 0
    /\ canvas \in BOOLEAN
    /\ deploy = Deployment("app", None)
    /\ login = [p \in Sessions |-> None]
    /\ ses = [p \in Sessions |-> IdleSes]
    /\ out = Shown(0, "")

\* a second passes.  The clock is read when an operation starts and again by
\* approve_submission for approved_at, so a tick anywhere else commutes
Tick ==
    /\ now < MaxClock
    /\ \A p \in Sessions : ses[p].pc \in {"idle", "fetch"}
    /\ now' = now + 1
    /\ UNCHANGED <<db, canvas, deploy, login, ses, out>>

-----------------------------------------------------------------------------
(* Operator page "Llenar checklist" *)

\* what an operator can enter: a state per item, a file in the uploaders shown
\* (one per item marked "Operativo con falla"), a signature or none
FormInputs(eq, sigs) ==
    LET n == Len(get_items_for_equipo(eq))
    IN  {f \in [estado : [1..n -> Estados], up : SUBSET (1..n), sig : sigs] :
            \A i \in f.up : f.estado[i] = Falla}

\* the operator fills the widgets of the form
FillForm(p, eq, f) ==
    /\ deploy.rev = "app"
    /\ ses[p].pc = "idle"
    /\ Alone(p)
    /\ Len(db.submissions) < MaxSubs
    /\ ses' = [ses EXCEPT ![p] = [IdleSes EXCEPT !.pc = "form", !.equipo = eq,
                                    !.estado = f.estado, !.up = f.up, !.sig = f.sig]]
    /\ out' = Shown(0, "")
    /\ UNCHANGED <<db, now, canvas, deploy, login>>

\* create_submission, were the id handed out and the row not yet appended
create_submission_deferred(submissions, sid, equipo, firma_b64, t) == submissions

\* create_submission: one row appended to submissions, status PENDIENTE
create_submission(submissions, sid, equipo, firma_b64, t) ==
    ws_append(submissions,
        [submission_id |-> sid, created_at |-> t, equipo |-> equipo,
         firma_operador_b64 |-> firma_b64, status |-> "PENDIENTE", updated_at |-> t])

\* "Enviar a supervisor": the two validations, then create_submission
EnviarClick(p) ==
    /\ ses[p].pc = "form"
    /\ LET items == get_items_for_equipo(ses[p].equipo)
           firma_b64 == signature_input(canvas, ses[p].sig)
       IN  IF missing_photo(items, ses[p].estado, ses[p].up)
           THEN /\ out' = Shown(p, "Falta foto")
                /\ ses' = [ses EXCEPT ![p] = IdleSes]
                /\ db' = db
           ELSE IF firma_b64 = None
           THEN /\ out' = Shown(p, "Firma obligatoria")
                /\ ses' = [ses EXCEPT ![p] = IdleSes]
                /\ db' = db
           ELSE \E suffix \in Suffixes :
                LET sid == make_submission_id(now, suffix)
                IN  /\ db' = [db EXCEPT !.submissions =
                                create_submission(@, sid, ses[p].equipo, firma_b64[1], now)]
                    /\ ses' = [ses EXCEPT ![p] =
                                [@ EXCEPT !.pc = "items_read", !.sid = Some(sid),
                                          !.rows = items_rows(sid, items, ses[p].estado),
                                          !.photos = photos_rows(sid, items, ses[p].estado, ses[p].up),
                                          !.pre = Some(db)]]
                    /\ out' = out
    /\ UNCHANGED <<now, canvas, deploy, login>>

\* upsert_submission_items: data = ws.get_all_values(), rows_to_delete
ItemsRead(p) ==
    /\ ses[p].pc = "items_read"
    /\ ses' = [ses EXCEPT ![p] = [@ EXCEPT !.pc = "items",
                  !.todel = IF Len(db.submission_items) >= 1
                            THEN rows_to_delete(db.submission_items, ses[p].sid[1])
                            ELSE <<>>]]
    /\ UNCHANGED <<db, now, canvas, deploy, login, out>>

\* upsert_submission_items: for r in reversed(rows_to_delete): ws.delete_rows(r)
ItemsDelete(p) ==
    /\ ses[p].pc = "items"
    /\ ses[p].todel # <<>>
    /\ db' = [db EXCEPT !.submission_items =
                delete_rows(@, ses[p].todel[Len(ses[p].todel)])]
    /\ ses' = [ses EXCEPT ![p] = [@ EXCEPT !.todel = SubSeq(@, 1, Len(@) - 1)]]
    /\ UNCHANGED <<now, canvas, deploy, login, out>>

\* upsert_submission_items: for row in items_rows: ws_append(ws, row)
ItemsAppend(p) ==
    /\ ses[p].pc = "items"
    /\ ses[p].todel = <<>>
    /\ ses[p].rows # <<>>
    /\ db' = [db EXCEPT !.submission_items = ws_append(@, Head(ses[p].rows))]
    /\ ses' = [ses EXCEPT ![p] = [@ EXCEPT !.rows = Tail(@)]]
    /\ UNCHANGED <<now, canvas, deploy, login, out>>

\* upsert_photos: data = ws.get_all_values(), rows_to_delete
PhotosRead(p) ==
    /\ ses[p].pc = "items"
    /\ ses[p].todel = <<>>
    /\ ses[p].rows = <<>>
    /\ ses' = [ses EXCEPT ![p] = [@ EXCEPT !.pc = "photos",
                  !.todel = IF Len(db.photos) >= 1
                            THEN rows_to_delete(db.photos, ses[p].sid[1])
                            ELSE <<>>]]
    /\ UNCHANGED <<db, now, canvas, deploy, login, out>>

\* upsert_photos: for r in reversed(rows_to_delete): ws.delete_rows(r)
PhotosDelete(p) ==
    /\ ses[p].pc = "photos"
    /\ ses[p].todel # <<>>
    /\ db' = [db EXCEPT !.photos = delete_rows(@, ses[p].todel[Len(ses[p].todel)])]
    /\ ses' = [ses EXCEPT ![p] = [@ EXCEPT !.todel = SubSeq(@, 1, Len(@) - 1)]]
    /\ UNCHANGED <<now, canvas, deploy, login, out>>

\* upsert_photos: for row in photos_rows: ws_append(ws, row)
PhotosAppend(p) ==
    /\ ses[p].pc = "photos"
    /\ ses[p].todel = <<>>
    /\ ses[p].photos # <<>>
    /\ db' = [db EXCEPT !.photos = ws_append(@, Head(ses[p].photos))]
    /\ ses' = [ses EXCEPT ![p] = [@ EXCEPT !.photos = Tail(@)]]
    /\ UNCHANGED <<now, canvas, deploy, login, out>>

\* st.success("Enviado"): the handler is through
EnviarDone(p) ==
    /\ ses[p].pc = "photos"
    /\ ses[p].todel = <<>>
    /\ ses[p].photos = <<>>
    /\ ses' = [ses EXCEPT ![p] = IdleSes]
    /\ out' = Shown(p, "Enviado")
    /\ UNCHANGED <<db, now, canvas, deploy, login>>

-----------------------------------------------------------------------------
(* approve_submission and its caller, the supervisor page "Pendientes" *)

\* the submission ids an approve can be asked for: every stored id in every
\* spelling, and one id that no row carries (all such ids behave alike)
KeyArgs(forms) ==
    LET stored == {db.submissions[i].submission_id.id : i \in 1..Len(db.submissions)}
        others == {<<t, x>> : t \in 0..MaxClock, x \in Suffixes} \ stored
        absent == IF others = {} THEN {}
                  ELSE {CHOOSE id \in others : \A o \in others : id[1] <= o[1]}
    IN  {[id |-> id, form |-> f] : id \in stored, f \in forms}
        \cup {[id |-> id, form |-> "exact"] : id \in absent}

\* make_pdf_bytes, were the buffer read before the canvas is saved into it
make_pdf_bytes_unsaved(sub, appr_row, embedded) == <<>>

\* make_pdf_bytes: the report's parts in drawing order; an image that cannot
\* be embedded is skipped (try/except around both drawImage calls)
make_pdf_bytes(sub, appr_row, embedded) ==
    << [part |-> "reporte", equipo |-> sub.equipo],
       [part |-> "aprobacion", conforme |-> appr_row.conforme] >>
    \o (IF embedded THEN << [part |-> "firmas"] >> ELSE <<>>)

\* base64.b64encode(pdf_bytes).decode("utf-8")
B64Bytes(bytes) == [i \in 1..Len(bytes) |-> B64(bytes[i])]

\* list_pending_submissions: the rows whose status is PENDIENTE
list_pending_submissions(submissions) ==
    {i \in 1..Len(submissions) : submissions[i].status = "PENDIENTE"}

\* "Cargar detalle" on the page "Pendientes": the page stops when nothing is
\* pending; else selected_submission = input.strip() and the rerun shows
\* get_submission_detail(sid)
CargarDetalle(p, k) ==
    /\ deploy.rev = "app"
    /\ ses[p].pc = "idle"
    /\ Alone(p)
    /\ LET sid == Strip(k)
           sub == FirstExact(db.submissions, sid)
       IN  IF list_pending_submissions(db.submissions) = {}
           THEN /\ out' = Shown(p, "No hay pendientes")
                /\ ses' = ses
           ELSE IF sub = None
           THEN /\ out' = Shown(p, "No existe ese submission")
                /\ ses' = ses
           ELSE /\ out' = Shown(0, "")
                /\ ses' = [ses EXCEPT ![p] =
                            [IdleSes EXCEPT !.pc = "detail", !.sid = Some(sid), !.sub = sub]]
    /\ UNCHANGED <<db, now, canvas, deploy, login>>

\* "Aprobar y generar PDF": the click reruns the page, which reads the detail
\* again and checks it, then calls
\* approve_submission(sid, user, conforme, observ, firma_sup_b64)
AprobarClick(p, conforme, sig) ==
    /\ ses[p].pc = "detail"
    /\ LET firma_sup_b64 == signature_input(canvas, sig)
           sub == FirstExact(db.submissions, ses[p].sid[1])
       IN  IF list_pending_submissions(db.submissions) = {}
           THEN /\ out' = Shown(p, "No hay pendientes")
                /\ ses' = [ses EXCEPT ![p] = IdleSes]
           ELSE IF sub = None
           THEN /\ out' = Shown(p, "No existe ese submission")
                /\ ses' = [ses EXCEPT ![p] = IdleSes]
           ELSE IF sub[1].status # "PENDIENTE"
           THEN /\ out' = Shown(p, "Ya no esta pendiente")
                /\ ses' = [ses EXCEPT ![p] = IdleSes]
           ELSE IF firma_sup_b64 = None
           THEN /\ out' = Shown(p, "Firma supervisor obligatoria")
                /\ ses' = [ses EXCEPT ![p] = IdleSes]
           ELSE /\ out' = out
                /\ ses' = [ses EXCEPT ![p] =
                            [IdleSes EXCEPT !.pc = "upd_scan", !.sid = ses[p].sid,
                                            !.conforme = conforme, !.firma = firma_sup_b64,
                                            !.t0 = now, !.pre = Some(db)]]
    /\ UNCHANGED <<db, now, canvas, deploy, login>>

\* approve_submission called with any submission_id, whatever the stored row
ApproveCall(p, k, conforme) ==
    /\ deploy.rev = "app"
    /\ ses[p].pc = "idle"
    /\ Alone(p)
    /\ ses' = [ses EXCEPT ![p] =
                [IdleSes EXCEPT !.pc = "upd_scan", !.sid = Some(k),
                                !.conforme = conforme,
                                !.firma = Some(B64([nonwhite |-> SigThreshold])),
                                !.t0 = now, !.pre = Some(db)]]
    /\ out' = Shown(0, "")
    /\ UNCHANGED <<db, now, canvas, deploy, login>>

\* ws_update_row_by_key: data = ws.get_all_values() and the scan for row_idx;
\* False makes approve_submission raise
UpdScan(p) ==
    /\ ses[p].pc = "upd_scan"
    /\ LET row_idx == FindRowIdx(db.submissions, "submission_id", ses[p].sid[1])
       IN  IF row_idx = 0
           THEN /\ out' = Shown(p, "RuntimeError: No pude actualizar status")
                /\ ses' = [ses EXCEPT ![p] = IdleSes]
           ELSE /\ out' = out
                /\ ses' = [ses EXCEPT ![p] = [@ EXCEPT !.pc = "upd_status",
                                                       !.row_idx = row_idx]]
    /\ UNCHANGED <<db, now, canvas, deploy, login>>

\* UpdStatus, were the status write left for after the approval row
UpdStatus_deferred(p) ==
    /\ ses[p].pc = "upd_status"
    /\ ses' = [ses EXCEPT ![p] = [@ EXCEPT !.pc = "upd_updated_at"]]
    /\ UNCHANGED <<db, now, canvas, deploy, login, out>>

\* UpdStatus, were a non-conforming review given a status of its own
UpdStatus_rechaza(p) ==
    /\ ses[p].pc = "upd_status"
    /\ db' = [db EXCEPT !.submissions =
                update_cell(@, ses[p].row_idx, "status",
                    IF ses[p].conforme = "No conforme" THEN "RECHAZADO" ELSE "APROBADO")]
    /\ ses' = [ses EXCEPT ![p] = [@ EXCEPT !.pc = "upd_updated_at"]]
    /\ UNCHANGED <<now, canvas, deploy, login, out>>

\* ws_update_row_by_key: ws.update_cell(row_idx, status column, "APROBADO")
UpdStatus(p) ==
    /\ ses[p].pc = "upd_status"
    /\ db' = [db EXCEPT !.submissions =
                update_cell(@, ses[p].row_idx, "status", "APROBADO")]
    /\ ses' = [ses EXCEPT ![p] = [@ EXCEPT !.pc = "upd_updated_at"]]
    /\ UNCHANGED <<now, canvas, deploy, login, out>>

\* ws_update_row_by_key: ws.update_cell(row_idx, updated_at column, _now_iso())
UpdUpdatedAt(p) ==
    /\ ses[p].pc = "upd_updated_at"
    /\ db' = [db EXCEPT !.submissions =
                update_cell(@, ses[p].row_idx, "updated_at", ses[p].t0)]
    /\ ses' = [ses EXCEPT ![p] = [@ EXCEPT !.pc = "fetch"]]
    /\ UNCHANGED <<now, canvas, deploy, login, out>>

\* get_submission_detail(submission_id); no row makes approve_submission raise
Fetch(p) ==
    /\ ses[p].pc = "fetch"
    /\ LET sub == FirstExact(db.submissions, ses[p].sid[1])
       IN  IF sub = None
           THEN /\ out' = Shown(p, "RuntimeError: No encontre submission")
                /\ ses' = [ses EXCEPT ![p] = IdleSes]
           ELSE /\ out' = out
                /\ ses' = [ses EXCEPT ![p] = [@ EXCEPT !.pc = "render", !.sub = sub,
                                                       !.t0 = now]]
    /\ UNCHANGED <<db, now, canvas, deploy, login>>

\* appr_row, make_pdf_bytes and its base64
Render(p, embedded) ==
    /\ ses[p].pc = "render"
    /\ LET appr_row == [submission_id |-> ses[p].sid[1], approved_at |-> ses[p].t0,
                        conforme |-> ses[p].conforme,
                        firma_supervisor_b64 |-> ses[p].firma[1]]
       IN  ses' = [ses EXCEPT ![p] = [@ EXCEPT !.pc = "appr_read",
                     !.pdf = B64Bytes(make_pdf_bytes(ses[p].sub[1], appr_row, embedded))]]
    /\ UNCHANGED <<db, now, canvas, deploy, login, out>>

\* the approvals upsert: data = ws.get_all_values(), rows_to_delete
ApprRead(p) ==
    /\ ses[p].pc = "appr_read"
    /\ ses' = [ses EXCEPT ![p] = [@ EXCEPT !.pc = "appr",
                  !.todel = IF Len(db.approvals) >= 1
                            THEN rows_to_delete(db.approvals, ses[p].sid[1])
                            ELSE <<>>]]
    /\ UNCHANGED <<db, now, canvas, deploy, login, out>>

\* the approvals upsert: for r in reversed(rows_to_delete): ws.delete_rows(r)
ApprDelete(p) ==
    /\ ses[p].pc = "appr"
    /\ ses[p].todel # <<>>
    /\ db' = [db EXCEPT !.approvals = delete_rows(@, ses[p].todel[Len(ses[p].todel)])]
    /\ ses' = [ses EXCEPT ![p] = [@ EXCEPT !.todel = SubSeq(@, 1, Len(@) - 1)]]
    /\ UNCHANGED <<now, canvas, deploy, login, out>>

\* the approvals upsert: ws_append of the approval row; approve_submission returns
ApprAppend(p) ==
    /\ ses[p].pc = "appr"
    /\ ses[p].todel = <<>>
    /\ db' = [db EXCEPT !.approvals = ws_append(@,
                [submission_id |-> ses[p].sid[1], approved_at |-> ses[p].t0,
                 conforme |-> ses[p].conforme,
                 firma_supervisor_b64 |-> ses[p].firma[1], pdf_b64 |-> ses[p].pdf])]
    /\ ses' = [ses EXCEPT ![p] = IdleSes]
    /\ out' = Shown(p, "Aprobado")
    /\ UNCHANGED <<now, canvas, deploy, login>>

-----------------------------------------------------------------------------
(* Users of src/app.py: the admin seed that every script run begins with,   *)
(* the login form and the supervisor page "Usuarios"                        *)

\* rows the users sheet is filled up to
MaxUsers == 2

\* a username is the name it spells and its letter case: "lower" (all lower
\* case) or "caps" (a spelling with capital letters); the empty input is NoName
Name(id, form) == [id |-> id, form |-> form]

NoName == Name("", "lower")

\* the usernames typed into the forms
NameInputs == {Name("admin", "lower"), Name("admin", "caps"), Name("ope", "lower"), NoName}

\* hashlib.sha256(pw.encode("utf-8")).hexdigest()
hash_password(pw) == [sha256 |-> pw]

\* a Python bool written to a cell (value_input_option USER_ENTERED) and read
\* back by get_all_records: the text the sheet shows for it
CellBool(b) == IF b THEN "TRUE" ELSE "FALSE"

\* bool(x) of a str: every non-empty text is true
Truthy(text) == text # ""

\* re.match(r"^[a-zA-Z0-9_.-]{3,}$", username)
ValidUsername(username) == username # NoName

\* get_user and the lookup of "Guardar usuario": the first record whose
\* username equals the argument after strip().lower() on both sides
get_user(users, username) ==
    LET hits == Ascending({j \in 1..Len(users) :
                              StripLower(users[j].username) = StripLower(username)})
    IN  IF hits = <<>> THEN None ELSE Some(users[hits[1]])

\* authenticate: the record, or None
authenticate(users, username, password) ==
    LET u == get_user(users, username)
    IN  IF u = None THEN None
        ELSE IF ~Truthy(u[1].is_active) THEN None
        ELSE IF u[1].password_hash # hash_password(password) THEN None
        ELSE u

\* the row ensure_admin_seed_and_optional_reset appends
admin_row(pw, t) ==
    [username |-> Name("admin", "lower"), password_hash |-> hash_password(pw),
     role |-> "supervisor", full_name |-> "Administrador",
     is_active |-> CellBool(TRUE), created_at |-> t]

\* role = (user.get("role") or "operador").lower()
IsSupervisor(p) == login[p] # None /\ login[p][1].role # "operador"

\* a script run begins: ensure_admin_seed_and_optional_reset reads the users
SeedRead(p) ==
    /\ deploy.rev = "app"
    /\ ses[p].pc = "idle"
    /\ Alone(p)
    /\ ses' = [ses EXCEPT ![p] =
                IF db.users = <<>>
                THEN [IdleSes EXCEPT !.pc = "seed_append",
                                     !.rows = <<admin_row("admin123", now)>>,
                                     !.pre = Some(db)]
                ELSE IF deploy.reset_pw # None
                THEN [IdleSes EXCEPT !.pc = "seed_scan", !.pre = Some(db)]
                ELSE [IdleSes EXCEPT !.pc = "ready", !.pre = Some(db)]]
    /\ out' = Shown(0, "")
    /\ UNCHANGED <<db, now, canvas, deploy, login>>

\* ensure_admin_seed_and_optional_reset: ws_append of the admin row
SeedAppend(p) ==
    /\ ses[p].pc = "seed_append"
    /\ db' = [db EXCEPT !.users = ws_append(@, ses[p].rows[1])]
    /\ ses' = [ses EXCEPT ![p] = [@ EXCEPT !.pc = "ready", !.rows = <<>>]]
    /\ UNCHANGED <<now, canvas, deploy, login, out>>

\* ensure_admin_seed_and_optional_reset with ADMIN_RESET_PASSWORD: the scan of
\* ws_update_row_by_key for "admin"; no row makes it append one
SeedScan(p) ==
    /\ ses[p].pc = "seed_scan"
    /\ LET row_idx == FindRowIdx(db.users, "username", Name("admin", "lower"))
           reset_pw == deploy.reset_pw[1]
       IN  ses' = [ses EXCEPT ![p] =
                    IF row_idx = 0
                    THEN [@ EXCEPT !.pc = "seed_append",
                                   !.rows = <<admin_row(reset_pw, now)>>]
                    ELSE [@ EXCEPT !.pc = "seed_upd", !.row_idx = row_idx,
                                   !.rows = << [col |-> "password_hash",
                                                val |-> hash_password(reset_pw)],
                                               [col |-> "is_active",
                                                val |-> CellBool(TRUE)] >>]]
    /\ UNCHANGED <<db, now, canvas, deploy, login, out>>

\* ws_update_row_by_key: ws.update_cell for the next column of updates
SeedUpdCell(p) ==
    /\ ses[p].pc = "seed_upd"
    /\ ses[p].rows # <<>>
    /\ db' = [db EXCEPT !.users =
                update_cell(@, ses[p].row_idx, ses[p].rows[1].col, ses[p].rows[1].val)]
    /\ ses' = [ses EXCEPT ![p] = [@ EXCEPT !.rows = Tail(@)]]
    /\ UNCHANGED <<now, canvas, deploy, login, out>>

\* ensure_admin_seed_and_optional_reset returns
SeedDone(p) ==
    /\ ses[p].pc = "seed_upd"
    /\ ses[p].rows = <<>>
    /\ ses' = [ses EXCEPT ![p] = [@ EXCEPT !.pc = "ready"]]
    /\ UNCHANGED <<db, now, canvas, deploy, login, out>>

\* the script run shows its page and no button was pressed
RunEnd(p) ==
    /\ ses[p].pc = "ready"
    /\ ses' = [ses EXCEPT ![p] = IdleSes]
    /\ UNCHANGED <<db, now, canvas, deploy, login, out>>

\* the login form, "Entrar": user = authenticate(username, password)
Entrar(p, username, password) ==
    /\ ses[p].pc = "ready"
    /\ login[p] = None
    /\ LET user == authenticate(db.users, username, password)
       IN  IF user = None
           THEN /\ out' = Shown(p, "Usuario o contrasena incorrecta")
                /\ login' = login
           ELSE /\ out' = Shown(p, "Sesion iniciada")
                /\ login' = [login EXCEPT ![p] = user]
    /\ ses' = [ses EXCEPT ![p] = [IdleSes EXCEPT !.form =
                  Some([username |-> username, pw |-> password])]]
    /\ UNCHANGED <<db, now, canvas, deploy>>

\* "Cerrar sesion": logout()
Logout(p) ==
    /\ ses[p].pc = "ready"
    /\ login[p] # None
    /\ login' = [login EXCEPT ![p] = None]
    /\ ses' = [ses EXCEPT ![p] = IdleSes]
    /\ out' = Shown(0, "")
    /\ UNCHANGED <<db, now, canvas, deploy>>

\* what a supervisor enters under "Crear / actualizar usuario"
UserForms(names, pws) ==
    [username : names, role : {"operador", "supervisor"}, full_name : {"Juan"},
     pw : pws, active : BOOLEAN]

\* page "Usuarios", "Guardar usuario": the username check, the lookup of the
\* existing record, and what is to be written
GuardarClick(p, f) ==
    /\ ses[p].pc = "ready"
    /\ IsSupervisor(p)
    /\ Len(db.users) < MaxUsers \/ get_user(db.users, f.username) # None
    /\ LET existing == get_user(db.users, f.username)
           updates == << [col |-> "role", val |-> f.role],
                         [col |-> "full_name", val |-> f.full_name],
                         [col |-> "is_active", val |-> CellBool(f.active)] >>
                      \o (IF f.pw # ""
                          THEN << [col |-> "password_hash", val |-> hash_password(f.pw)] >>
                          ELSE <<>>)
       IN  IF ~ValidUsername(f.username)
           THEN /\ out' = Shown(p, "Username invalido")
                /\ ses' = [ses EXCEPT ![p] = [IdleSes EXCEPT !.form = Some(f)]]
           ELSE IF existing = None
           THEN IF f.pw = ""
                THEN /\ out' = Shown(p, "Para crear usuario, la contrasena es obligatoria")
                     /\ ses' = [ses EXCEPT ![p] = [IdleSes EXCEPT !.form = Some(f)]]
                ELSE /\ out' = out
                     /\ ses' = [ses EXCEPT ![p] =
                                 [@ EXCEPT !.pc = "usr_append", !.form = Some(f),
                                           !.pre = Some(db),
                                           !.rows = << [username |-> f.username,
                                                        password_hash |-> hash_password(f.pw),
                                                        role |-> f.role,
                                                        full_name |-> f.full_name,
                                                        is_active |-> CellBool(f.active),
                                                        created_at |-> now] >>]]
           ELSE /\ out' = out
                /\ ses' = [ses EXCEPT ![p] =
                            [@ EXCEPT !.pc = "usr_scan", !.form = Some(f),
                                      !.pre = Some(db), !.rows = updates]]
    /\ UNCHANGED <<db, now, canvas, deploy, login>>

\* "Guardar usuario": ws_append of the new row
UsrAppend(p) ==
    /\ ses[p].pc = "usr_append"
    /\ db' = [db EXCEPT !.users = ws_append(@, ses[p].rows[1])]
    /\ ses' = [ses EXCEPT ![p] = IdleSes]
    /\ out' = Shown(p, "Usuario creado")
    /\ UNCHANGED <<now, canvas, deploy, login>>

\* "Guardar usuario": the scan of ws_update_row_by_key
UsrScan(p) ==
    /\ ses[p].pc = "usr_scan"
    /\ LET row_idx == FindRowIdx(db.users, "username", ses[p].form[1].username)
       IN  IF row_idx = 0
           THEN /\ out' = Shown(p, "No pude actualizar")
                /\ ses' = [ses EXCEPT ![p] = IdleSes]
           ELSE /\ out' = out
                /\ ses' = [ses EXCEPT ![p] = [@ EXCEPT !.pc = "usr_upd",
                                                       !.row_idx = row_idx]]
    /\ UNCHANGED <<db, now, canvas, deploy, login>>

\* "Guardar usuario": ws.update_cell for the next column of updates
UsrUpdCell(p) ==
    /\ ses[p].pc = "usr_upd"
    /\ ses[p].rows # <<>>
    /\ db' = [db EXCEPT !.users =
                update_cell(@, ses[p].row_idx, ses[p].rows[1].col, ses[p].rows[1].val)]
    /\ ses' = [ses EXCEPT ![p] = [@ EXCEPT !.rows = Tail(@)]]
    /\ UNCHANGED <<now, canvas, deploy, login, out>>

\* "Guardar usuario": ws_update_row_by_key returns True
UsrUpdDone(p) ==
    /\ ses[p].pc = "usr_upd"
    /\ ses[p].rows = <<>>
    /\ ses' = [ses EXCEPT ![p] = IdleSes]
    /\ out' = Shown(p, "Usuario actualizado")
    /\ UNCHANGED <<db, now, canvas, deploy, login>>

\* page "Usuarios", "Eliminar": admin is refused; else the scan of
\* ws_delete_row_by_key
EliminarClick(p, del_user) ==
    /\ ses[p].pc = "ready"
    /\ IsSupervisor(p)
    /\ LET row_idx == FindRowIdx(db.users, "username", del_user)
           f == [username |-> del_user]
       IN  IF StripLower(del_user) = Name("admin", "lower")
           THEN /\ out' = Shown(p, "No se permite borrar admin")
                /\ ses' = [ses EXCEPT ![p] = [IdleSes EXCEPT !.form = Some(f)]]
           ELSE IF row_idx = 0
           THEN /\ out' = Shown(p, "No existe ese usuario")
                /\ ses' = [ses EXCEPT ![p] = [IdleSes EXCEPT !.form = Some(f)]]
           ELSE /\ out' = out
                /\ ses' = [ses EXCEPT ![p] = [@ EXCEPT !.pc = "usr_del", !.form = Some(f),
                                                       !.pre = Some(db),
                                                       !.row_idx = row_idx]]
    /\ UNCHANGED <<db, now, canvas, deploy, login>>

\* ws_delete_row_by_key: ws.delete_rows(i + 1)
UsrDelete(p) ==
    /\ ses[p].pc = "usr_del"
    /\ db' = [db EXCEPT !.users = delete_rows(@, ses[p].row_idx)]
    /\ ses' = [ses EXCEPT ![p] = IdleSes]
    /\ out' = Shown(p, "Eliminado")
    /\ UNCHANGED <<now, canvas, deploy, login>>

UserSteps(names, pws, logins) ==
    \/ \E p \in Serial : SeedRead(p)
    \/ \E p \in Serial : SeedAppend(p)
    \/ \E p \in Serial : SeedScan(p)
    \/ \E p \in Serial : SeedUpdCell(p)
    \/ \E p \in Serial : SeedDone(p)
    \/ \E p \in Serial : RunEnd(p)
    \/ \E p \in Serial, username \in names, password \in logins :
            Entrar(p, username, password)
    \/ \E p \in Serial : Logout(p)
    \/ \E p \in Serial, f \in UserForms(names, pws) : GuardarClick(p, f)
    \/ \E p \in Serial : UsrAppend(p)
    \/ \E p \in Serial : UsrScan(p)
    \/ \E p \in Serial : UsrUpdCell(p)
    \/ \E p \in Serial : UsrUpdDone(p)
    \/ \E p \in Serial, del_user \in names : EliminarClick(p, del_user)
    \/ \E p \in Serial : UsrDelete(p)

\* the users a supervisor has created next to admin
OtherNames == {Name("ana", "lower"), Name("luz", "lower"), Name("ope", "lower")}

\* the row "Guardar usuario" appends for a new operator
operator_row(username, t) ==
    [username |-> username, password_hash |-> hash_password("p1"),
     role |-> "operador", full_name |-> "Juan",
     is_active |-> CellBool(TRUE), created_at |-> t]

\* the users sheets after the seed and the creation of some of the other
\* users, in any order
UsersTables ==
    LET orders == {o \in UNION {[1..n -> OtherNames] : n \in 0..Cardinality(OtherNames)} :
                      \A i, j \in 1..Len(o) : i # j => o[i] # o[j]}
    IN  {<<admin_row("admin123", 0)>> \o [i \in 1..Len(o) |-> operator_row(o[i], 0)] :
            o \in orders}

\* "Guardar usuario" and "Eliminar" in any session, the script runs of the
\* sessions interleaved call by call
SharedUserSteps(names, pws) ==
    \/ \E p \in Sessions, f \in UserForms(names, pws) : GuardarClick(p, f)
    \/ \E p \in Sessions : UsrAppend(p)
    \/ \E p \in Sessions : UsrScan(p)
    \/ \E p \in Sessions : UsrUpdCell(p)
    \/ \E p \in Sessions : UsrUpdDone(p)
    \/ \E p \in Sessions, del_user \in names : EliminarClick(p, del_user)
    \/ \E p \in Sessions : UsrDelete(p)

-----------------------------------------------------------------------------
(* Users of the revision "check list - Despachos": login_view,               *)
(* bootstrap_demo_user and the tab "Usuarios" of supervisor_view.  The       *)
(* users sheet has the columns username, password_hash, role, active,        *)
(* created_at; usernames are compared as typed.                              *)

\* df["active"].astype(str).str.lower().isin(["true", "1", "yes", "si", "sí"])
desp_active(text) == text \in {"True", "TRUE", "true"}

\* authenticate(db, username, password_plain) of the Despachos revision
desp_authenticate(users, username, password_plain) ==
    LET hits == Ascending({j \in 1..Len(users) :
                    /\ users[j].username = username
                    /\ users[j].password_hash = hash_password(password_plain)
                    /\ desp_active(users[j].active)})
    IN  IF hits = <<>> THEN None
        ELSE Some([username |-> users[hits[1]].username, role |-> users[hits[1]].role])

\* str(active)
PyStr(b) == IF b THEN "True" ELSE "False"

\* the data rows whose username is the one given, as typed
desp_user_rows(users, username) ==
    Ascending({j \in 1..Len(users) : users[j].username = username})

\* upsert_user up to its write: the sheet row to overwrite (0: append) and
\* the row written
upsert_user(users, username, password_plain, role, active, t) ==
    LET hits == desp_user_rows(users, username)
    IN  [row_idx |-> IF hits = <<>> THEN 0 ELSE hits[1] + 1,
         row |-> [username |-> username,
                  password_hash |-> hash_password(password_plain),
                  role |-> role, active |-> PyStr(active),
                  created_at |-> IF hits = <<>> THEN t ELSE users[hits[1]].created_at]]

\* role = st.session_state.user["role"].strip().lower()
DespIsSupervisor(p) == login[p] # None /\ login[p][1].role = "supervisor"

\* login_view, "Entrar": authenticate(db, username.strip(), password)
DespEntrar(p, username, password) ==
    /\ deploy.rev = "despachos"
    /\ ses[p].pc = "idle"
    /\ Alone(p)
    /\ login[p] = None
    /\ LET u == desp_authenticate(db.users, username, password)
       IN  IF u = None
           THEN /\ out' = Shown(p, "Usuario o contrasena incorrecta")
                /\ login' = login
           ELSE /\ out' = Shown(p, "Sesion iniciada")
                /\ login' = [login EXCEPT ![p] = u]
    /\ ses' = [ses EXCEPT ![p] = [IdleSes EXCEPT !.form =
                  Some([username |-> username, pw |-> password])]]
    /\ UNCHANGED <<db, now, canvas, deploy>>

\* "Salir": logout()
DespLogout(p) ==
    /\ deploy.rev = "despachos"
    /\ ses[p].pc = "idle"
    /\ Alone(p)
    /\ login[p] # None
    /\ login' = [login EXCEPT ![p] = None]
    /\ ses' = [ses EXCEPT ![p] = IdleSes]
    /\ out' = Shown(0, "")
    /\ UNCHANGED <<db, now, canvas, deploy>>

\* bootstrap_demo_user, "Crear supervisor demo", shown under the login form:
\* upsert_user(db, "admin", "admin", "supervisor", True) up to its write
DespBootstrapClick(p) ==
    /\ deploy.rev = "despachos"
    /\ ses[p].pc = "idle"
    /\ Alone(p)
    /\ login[p] = None
    /\ LET w == upsert_user(db.users, Name("admin", "lower"), "admin", "supervisor", TRUE, now)
       IN  ses' = [ses EXCEPT ![p] = [IdleSes EXCEPT !.pc = "d_boot", !.pre = Some(db),
                                                       !.row_idx = w.row_idx,
                                                       !.rows = <<w.row>>]]
    /\ out' = Shown(0, "")
    /\ UNCHANGED <<db, now, canvas, deploy, login>>

\* supervisor_view, "Guardar usuario": both fields are required, then
\* upsert_user(db, u.strip(), p, role, active) up to its write
DespGuardarClick(p, f) ==
    /\ deploy.rev = "despachos"
    /\ ses[p].pc = "idle"
    /\ Alone(p)
    /\ DespIsSupervisor(p)
    /\ Len(db.users) < MaxUsers \/ desp_user_rows(db.users, f.username) # <<>>
    /\ LET w == upsert_user(db.users, f.username, f.pw, f.role, f.active, now)
       IN  IF f.username = NoName \/ f.pw = ""
           THEN /\ out' = Shown(p, "Completa usuario y contrasena")
                /\ ses' = [ses EXCEPT ![p] = [IdleSes EXCEPT !.form = Some(f)]]
           ELSE /\ out' = Shown(0, "")
                /\ ses' = [ses EXCEPT ![p] = [IdleSes EXCEPT !.pc = "d_usr_write",
                                                !.form = Some(f), !.pre = Some(db),
                                                !.row_idx = w.row_idx, !.rows = <<w.row>>]]
    /\ UNCHANGED <<db, now, canvas, deploy, login>>

\* upsert_user: ws.append_row(...) or ws.update(f"A{row}:E{row}", ...)
DespUsrWrite(p) ==
    /\ ses[p].pc \in {"d_usr_write", "d_boot"}
    /\ db' = [db EXCEPT !.users =
                IF ses[p].row_idx = 0 THEN ws_append(@, ses[p].rows[1])
                ELSE IF ses[p].row_idx - 1 \in 1..Len(@)
                THEN [@ EXCEPT ![ses[p].row_idx - 1] = ses[p].rows[1]]
                ELSE @]
    /\ ses' = [ses EXCEPT ![p] = IdleSes]
    /\ out' = Shown(p, "Guardado")
    /\ UNCHANGED <<now, canvas, deploy, login>>

\* supervisor_view, "Eliminar": delete_user(db, udel.strip()) up to its write
DespEliminarClick(p, udel) ==
    /\ deploy.rev = "despachos"
    /\ ses[p].pc = "idle"
    /\ Alone(p)
    /\ DespIsSupervisor(p)
    /\ udel # NoName
    /\ LET hits == desp_user_rows(db.users, udel)
           f == [username |-> udel]
       IN  IF hits = <<>>
           THEN /\ out' = Shown(p, "Eliminado")
                /\ ses' = [ses EXCEPT ![p] = [IdleSes EXCEPT !.form = Some(f)]]
           ELSE /\ out' = Shown(0, "")
                /\ ses' = [ses EXCEPT ![p] = [IdleSes EXCEPT !.pc = "d_usr_del",
                                                !.form = Some(f), !.pre = Some(db),
                                                !.row_idx = hits[1] + 1]]
    /\ UNCHANGED <<db, now, canvas, deploy, login>>

\* delete_user: ws.delete_rows(idx + 2)
DespUsrDelete(p) ==
    /\ ses[p].pc = "d_usr_del"
    /\ db' = [db EXCEPT !.users = delete_rows(@, ses[p].row_idx)]
    /\ ses' = [ses EXCEPT ![p] = IdleSes]
    /\ out' = Shown(p, "Eliminado")
    /\ UNCHANGED <<now, canvas, deploy, login>>

DespUserSteps(names, pws, logins) ==
    \/ \E p \in Serial, username \in names, password \in logins :
            DespEntrar(p, username, password)
    \/ \E p \in Serial : DespLogout(p)
    \/ \E p \in Serial : DespBootstrapClick(p)
    \/ \E p \in Serial, f \in UserForms(names, pws) : DespGuardarClick(p, f)
    \/ \E p \in Serial : DespUsrWrite(p)
    \/ \E p \in Serial, udel \in names : DespEliminarClick(p, udel)
    \/ \E p \in Serial : DespUsrDelete(p)

-----------------------------------------------------------------------------
(* The revision "check list - Despachos": operator_view and the tab          *)
(* "Pendientes" of supervisor_view.  Its sheets carry no status column: a    *)
(* submission is pending while no approvals row names it.                    *)

\* str(uuid.uuid4()): an id no stored row carries
uuid4(submissions) == [id |-> <<Len(submissions) + 1, "uuid4">>, form |-> "exact"]

\* b64_png_from_canvas: None without image data, else the PNG of the canvas
\* whatever is drawn on it
b64_png_from_canvas(sig) == IF sig = None THEN None ELSE Some(B64(sig[1]))

\* operator_view: missing_photos
missing_photos(items, estado, up) ==
    {i \in 1..Len(items) : estado[i] = Falla /\ ~UpFile(estado, up, i)}

\* operator_view: the rows written to submission_items, one per item
desp_items_rows(sid, items, estado) ==
    [i \in 1..Len(items) |->
        [submission_id |-> sid, item_index |-> i - 1, status |-> estado[i]]]

\* operator_view: the rows written to photos, one per item with photo_b64
RECURSIVE desp_photos_rows_from(_, _, _, _, _)
desp_photos_rows_from(sid, items, estado, up, i) ==
    IF i > Len(items) THEN <<>>
    ELSE (IF UpFile(estado, up, i)
          THEN <<[submission_id |-> sid, item_index |-> i - 1]>>
          ELSE <<>>)
         \o desp_photos_rows_from(sid, items, estado, up, i + 1)

\* operator_view: the operator fills the widgets
DespFillForm(p, eq, f) ==
    /\ deploy.rev = "despachos"
    /\ ses[p].pc = "idle"
    /\ Alone(p)
    /\ Len(db.submissions) < MaxSubs
    /\ ses' = [ses EXCEPT ![p] = [IdleSes EXCEPT !.pc = "d_form", !.equipo = eq,
                                    !.estado = f.estado, !.up = f.up, !.sig = f.sig]]
    /\ out' = Shown(0, "")
    /\ UNCHANGED <<db, now, canvas, deploy, login>>

\* operator_view, "Enviar a supervisor": the two validations, then the
\* submission header is appended
DespEnviarClick(p) ==
    /\ ses[p].pc = "d_form"
    /\ LET items == get_items_for_equipo(ses[p].equipo)
           sig_b64 == b64_png_from_canvas(ses[p].sig)
           submission_id == uuid4(db.submissions)
       IN  IF sig_b64 = None
           THEN /\ out' = Shown(p, "Falta la firma del operador")
                /\ ses' = [ses EXCEPT ![p] = IdleSes]
                /\ db' = db
           ELSE IF missing_photos(items, ses[p].estado, ses[p].up) # {}
           THEN /\ out' = Shown(p, "Falta foto")
                /\ ses' = [ses EXCEPT ![p] = IdleSes]
                /\ db' = db
           ELSE /\ db' = [db EXCEPT !.submissions = ws_append(@,
                            [submission_id |-> submission_id,
                             equipment_id |-> ses[p].equipo,
                             operator_signature_png_b64 |-> sig_b64[1],
                             created_at |-> now])]
                /\ ses' = [ses EXCEPT ![p] =
                            [@ EXCEPT !.pc = "d_items", !.sid = Some(submission_id),
                                      !.rows = desp_items_rows(submission_id, items, ses[p].estado),
                                      !.photos = desp_photos_rows_from(submission_id, items,
                                                      ses[p].estado, ses[p].up, 1),
                                      !.pre = Some(db)]]
                /\ out' = out
    /\ UNCHANGED <<now, canvas, deploy, login>>

\* operator_view: for it in items: ws_items.append_row(...)
DespItemsAppend(p) ==
    /\ ses[p].pc = "d_items"
    /\ ses[p].rows # <<>>
    /\ db' = [db EXCEPT !.submission_items = ws_append(@, Head(ses[p].rows))]
    /\ ses' = [ses EXCEPT ![p] = [@ EXCEPT !.rows = Tail(@)]]
    /\ UNCHANGED <<now, canvas, deploy, login, out>>

\* operator_view: for it in items: if it["photo_b64"]: ws_ph.append_row(...)
DespPhotosAppend(p) ==
    /\ ses[p].pc = "d_items"
    /\ ses[p].rows = <<>>
    /\ ses[p].photos # <<>>
    /\ db' = [db EXCEPT !.photos = ws_append(@, Head(ses[p].photos))]
    /\ ses' = [ses EXCEPT ![p] = [@ EXCEPT !.photos = Tail(@)]]
    /\ UNCHANGED <<now, canvas, deploy, login, out>>

\* operator_view: st.success("Enviado. ...")
DespEnviarDone(p) ==
    /\ ses[p].pc = "d_items"
    /\ ses[p].rows = <<>>
    /\ ses[p].photos = <<>>
    /\ ses' = [ses EXCEPT ![p] = IdleSes]
    /\ out' = Shown(p, "Enviado")
    /\ UNCHANGED <<db, now, canvas, deploy, login>>

\* supervisor_view: the ids of the submissions that no approvals row names
desp_pending(submissions, approvals) ==
    LET approved_ids == {approvals[i].submission_id : i \in 1..Len(approvals)}
    IN  {submissions[i].submission_id : i \in 1..Len(submissions)} \ approved_ids

\* make_pdf: the report's parts in drawing order; draw_sig lets a failure of
\* ImageReader or drawImage escape, shown here as None
make_pdf(submission_row, approval_row, embedded) ==
    IF embedded
    THEN Some(<< [part |-> "reporte", equipo |-> submission_row.equipment_id],
                 [part |-> "firmas"],
                 [part |-> "aprobacion", conforme |-> approval_row.ok] >>)
    ELSE None

\* supervisor_view, tab "Pendientes": a pending submission is selected, the
\* checkbox "Conformidad (OK)" set and the canvas signed or not
DespRevisar(p, sid, ok, sig) ==
    /\ deploy.rev = "despachos"
    /\ ses[p].pc = "idle"
    /\ Alone(p)
    /\ sid \in desp_pending(db.submissions, db.approvals)
    /\ ses' = [ses EXCEPT ![p] =
                [IdleSes EXCEPT !.pc = "d_review", !.sid = Some(sid),
                                !.conforme = IF ok THEN "True" ELSE "False",
                                !.sig = sig,
                                !.sub = FirstExact(db.submissions, sid)]]
    /\ out' = Shown(0, "")
    /\ UNCHANGED <<db, now, canvas, deploy, login>>

\* supervisor_view, "Aprobar y generar PDF": the signature check
DespAprobarClick(p) ==
    /\ ses[p].pc = "d_review"
    /\ LET sig_b64 == b64_png_from_canvas(ses[p].sig)
       IN  IF sig_b64 = None
           THEN /\ out' = Shown(p, "Falta la firma del supervisor")
                /\ ses' = [ses EXCEPT ![p] = IdleSes]
           ELSE /\ out' = out
                /\ ses' = [ses EXCEPT ![p] = [@ EXCEPT !.pc = "d_render",
                                                       !.firma = sig_b64, !.t0 = now,
                                                       !.pre = Some(db)]]
    /\ UNCHANGED <<db, now, canvas, deploy, login>>

\* supervisor_view: pdf_bytes = make_pdf(row, items, {...}) and its base64;
\* an exception ends the script run
DespRender(p, embedded) ==
    /\ ses[p].pc = "d_render"
    /\ LET approval_row == [submission_id |-> ses[p].sid[1], ok |-> ses[p].conforme,
                            supervisor_signature_png_b64 |-> ses[p].firma[1],
                            approved_at |-> ses[p].t0]
           pdf_bytes == make_pdf(ses[p].sub[1], approval_row, embedded)
       IN  IF pdf_bytes = None
           THEN /\ out' = Shown(p, "Exception: make_pdf")
                /\ ses' = [ses EXCEPT ![p] = IdleSes]
           ELSE /\ out' = out
                /\ ses' = [ses EXCEPT ![p] = [@ EXCEPT !.pc = "d_appr",
                                                       !.pdf = B64Bytes(pdf_bytes[1])]]
    /\ UNCHANGED <<db, now, canvas, deploy, login>>

\* supervisor_view: ws_appr.append_row([...]) and st.success
DespApprAppend(p) ==
    /\ ses[p].pc = "d_appr"
    /\ db' = [db EXCEPT !.approvals = ws_append(@,
                [submission_id |-> ses[p].sid[1], ok |-> ses[p].conforme,
                 supervisor_signature_png_b64 |-> ses[p].firma[1],
                 approved_at |-> now, pdf_b64 |-> ses[p].pdf])]
    /\ ses' = [ses EXCEPT ![p] = IdleSes]
    /\ out' = Shown(p, "Aprobado")
    /\ UNCHANGED <<now, canvas, deploy, login>>

\* every stored submission id
StoredIds == {db.submissions[i].submission_id : i \in 1..Len(db.submissions)}

DespSteps(equipos, sigs, embeds) ==
    \/ \E p \in Serial, eq \in equipos : \E f \in FormInputs(eq, sigs) : DespFillForm(p, eq, f)
    \/ \E p \in Serial : DespEnviarClick(p)
    \/ \E p \in Serial : DespItemsAppend(p)
    \/ \E p \in Serial : DespPhotosAppend(p)
    \/ \E p \in Serial : DespEnviarDone(p)
    \/ \E p \in Serial, sid \in StoredIds, ok \in BOOLEAN, sig \in sigs :
            DespRevisar(p, sid, ok, sig)
    \/ \E p \in Serial : DespAprobarClick(p)
    \/ \E p \in Serial, embedded \in embeds : DespRender(p, embedded)
    \/ \E p \in Serial : DespApprAppend(p)

-----------------------------------------------------------------------------
(* The weekly export of both revisions: export_weekly_xlsx and the page      *)
(* "Export semanal" of src/app.py, monday_to_saturday_range and the tab      *)
(* "Reportes / Export" of the Despachos revision.  A date is the number of   *)
(* its day, day 0 being a Monday; the cell of a date holds its ISO text.     *)

\* the days the date inputs and the stored submissions range over
MaxDay == 8

Days == 0..MaxDay

\* date.isoformat() / _today_iso()
isoformat(d) == [iso |-> d]

\* pd.to_datetime(text, errors="coerce").dt.date: the date an ISO text spells,
\* None (NaT) for any other cell
to_datetime(cell) ==
    IF DOMAIN cell = {"iso"} /\ cell.iso \in Int THEN Some(cell.iso) ELSE None

\* date.weekday(): Monday is 0, Sunday is 6
weekday(d) == d % 7

\* monday_to_saturday_range(any_day) computed without the subtraction
monday_to_saturday_range_from(any_day) ==
    [monday |-> any_day, saturday |-> any_day + 5]

\* monday_to_saturday_range(any_day)
monday_to_saturday_range(any_day) ==
    LET monday == any_day - weekday(any_day)
    IN  [monday |-> monday, saturday |-> monday + 5]

\* df[mask]: the rows of a frame that pass the test, in their order
RECURSIVE Filter(_, _)
Filter(rows, keep) ==
    IF rows = <<>> THEN <<>>
    ELSE (IF keep[1] THEN <<rows[1]>> ELSE <<>>)
         \o Filter(Tail(rows), Tail(keep))

\* df.sort_values("created_at", ascending=False): a stable sort
RECURSIVE sort_values_desc(_)
sort_values_desc(rows) ==
    IF rows = <<>> THEN <<>>
    ELSE LET rest == sort_values_desc(Tail(rows))
             before == Filter(rest, [i \in 1..Len(rest) |->
                                        rest[i].created_at > rows[1].created_at])
             after == Filter(rest, [i \in 1..Len(rest) |->
                                        rest[i].created_at <= rows[1].created_at])
         IN  before \o <<rows[1]>> \o after

\* list_all_submissions
list_all_submissions(submissions) == sort_values_desc(submissions)

\* (df["date_dt"] >= start_date) & (df["date_dt"] <= end_date); a comparison
\* with NaT is false
in_range(rows, start_date, end_date) ==
    [i \in 1..Len(rows) |->
        LET date_dt == to_datetime(rows[i].date)
        IN  date_dt # None /\ date_dt[1] >= start_date /\ date_dt[1] <= end_date]

\* frame[frame["submission_id"].isin(ids)]
isin(rows, ids) ==
    Filter(rows, [i \in 1..Len(rows) |-> rows[i].submission_id \in ids])

\* the submission ids of a frame
IdsOf(rows) == {rows[i].submission_id : i \in 1..Len(rows)}

\* export_weekly_xlsx: the workbook, a function from sheet names to rows
export_weekly_xlsx(store, start_date, end_date) ==
    LET df == list_all_submissions(store.submissions)
        dfw == Filter(df, in_range(df, start_date, end_date))
        items == IF store.submission_items # <<>> /\ dfw # <<>>
                 THEN isin(store.submission_items, IdsOf(dfw)) ELSE <<>>
        approvals == IF store.approvals # <<>> /\ dfw # <<>>
                     THEN isin(store.approvals, IdsOf(dfw)) ELSE <<>>
    IN  IF df = <<>>
        THEN [sheet \in {"submissions"} |-> <<>>]
        ELSE [sheet \in {"submissions", "items", "approvals"} |->
                 CASE sheet = "submissions" -> dfw
                   [] sheet = "items" -> items
                   [] sheet = "approvals" -> approvals]

\* page "Export semanal", "Generar XLSX"
GenerarXlsx(p, start, end) ==
    /\ deploy.rev = "app"
    /\ ses[p].pc = "idle"
    /\ Alone(p)
    /\ IF end < start
       THEN /\ out' = Shown(p, "La fecha final no puede ser menor")
            /\ ses' = [ses EXCEPT ![p] = [IdleSes EXCEPT !.form =
                          Some([start |-> start, end |-> end])]]
       ELSE /\ out' = Shown(p, "Descargar Excel")
            /\ ses' = [ses EXCEPT ![p] = [IdleSes EXCEPT
                          !.form = Some([start |-> start, end |-> end]),
                          !.xlsx = Some(export_weekly_xlsx(db, start, end))]]
    /\ UNCHANGED <<db, now, canvas, deploy, login>>

\* supervisor_view: df_sub with the column is_approved
desp_df_sub(store) ==
    [i \in 1..Len(store.submissions) |->
        [submission_id |-> store.submissions[i].submission_id,
         date |-> store.submissions[i].date,
         created_at |-> store.submissions[i].created_at,
         is_approved |-> store.submissions[i].submission_id \in IdsOf(store.approvals)]]

\* supervisor_view: df_sub["date"] = pd.to_datetime(df_sub["date"], ...).dt.date
desp_parse_dates(df_sub) ==
    [i \in 1..Len(df_sub) |-> [df_sub[i] EXCEPT !.date = to_datetime(@)]]

\* supervisor_view, tab "Reportes / Export": the workbook of the week, None
\* when the week holds no submission
desp_week_xlsx(store, start, end) ==
    LET df_sub == desp_parse_dates(desp_df_sub(store))
        mask == [i \in 1..Len(df_sub) |->
                    /\ df_sub[i].date # None
                    /\ df_sub[i].date[1] >= start
                    /\ df_sub[i].date[1] <= end]
        week_sub == Filter(df_sub, mask)
        week_items == isin(store.submission_items, IdsOf(week_sub))
    IN  IF week_sub = <<>> THEN None
        ELSE Some([sheet \in {"submissions", "items"} |->
                     IF sheet = "submissions" THEN week_sub ELSE week_items])

\* supervisor_view, tab "Reportes / Export" with the reference day chosen
DespExport(p, any_day) ==
    /\ deploy.rev = "despachos"
    /\ ses[p].pc = "idle"
    /\ Alone(p)
    /\ IF db.submissions = <<>>
       THEN /\ out' = Shown(p, "Aun no hay registros")
            /\ ses' = [ses EXCEPT ![p] = IdleSes]
       ELSE LET week == monday_to_saturday_range(any_day)
                xlsx == desp_week_xlsx(db, week.monday, week.saturday)
            IN  /\ out' = IF xlsx = None
                          THEN Shown(p, "No hay registros en ese rango")
                          ELSE Shown(p, "Descargar XLSX")
                /\ ses' = [ses EXCEPT ![p] = [IdleSes EXCEPT
                              !.form = Some([any_day |-> any_day,
                                             start |-> week.monday,
                                             end |-> week.saturday]),
                              !.xlsx = xlsx]]
    /\ UNCHANGED <<db, now, canvas, deploy, login>>

\* the days on which the stored submissions were made: the days around the
\* end of a week
StoredDays == {d \in Days : weekday(d) \in {0, 5, 6}}

\* the store after the submissions of a history: submission i made on day
\* history[i].day with one item row, approved or not
StoreOf(history) ==
    LET n == Len(history)
        approved == Filter([i \in 1..n |-> i], [i \in 1..n |-> history[i].approved])
    IN  [submissions |-> [i \in 1..n |->
                            [submission_id |-> i, date |-> isoformat(history[i].day),
                             created_at |-> i]],
         submission_items |-> [i \in 1..n |-> [submission_id |-> i, item |-> "i1"]],
         photos |-> <<>>,
         approvals |-> [i \in 1..Len(approved) |-> [submission_id |-> approved[i]]],
         users |-> <<>>]

\* the histories of at most MaxSubs submissions
Histories ==
    UNION {[1..n -> [day : StoredDays, approved : BOOLEAN]] : n \in 0..MaxSubs}

ExportSteps(days) ==
    \/ \E p \in Serial, start \in days, end \in days : GenerarXlsx(p, start, end)
    \/ \E p \in Serial, any_day \in days : DespExport(p, any_day)

-----------------------------------------------------------------------------
(* Specifications *)

\* a signature drawn with enough ink, and no signature
Firmado == Some([nonwhite |-> SigThreshold])

SubmitSteps(equipos, sigs) ==
    \/ \E p \in Serial, eq \in equipos : \E f \in FormInputs(eq, sigs) : FillForm(p, eq, f)
    \/ \E p \in Serial : EnviarClick(p)
    \/ \E p \in Serial : ItemsRead(p)
    \/ \E p \in Serial : ItemsDelete(p)
    \/ \E p \in Serial : ItemsAppend(p)
    \/ \E p \in Serial : PhotosRead(p)
    \/ \E p \in Serial : PhotosDelete(p)
    \/ \E p \in Serial : PhotosAppend(p)
    \/ \E p \in Serial : EnviarDone(p)

ApproveSteps(sigs, embeds) ==
    \/ \E p \in Serial, k \in KeyArgs(KeyForms) : CargarDetalle(p, k)
    \/ \E p \in Serial, c \in Conformidad, sig \in sigs : AprobarClick(p, c, sig)
    \/ \E p \in Serial, k \in KeyArgs({"exact", "lower"}), c \in Conformidad :
            ApproveCall(p, k, c)
    \/ \E p \in Serial : UpdScan(p)
    \/ \E p \in Serial : UpdStatus(p)
    \/ \E p \in Serial : UpdUpdatedAt(p)
    \/ \E p \in Serial : Fetch(p)
    \/ \E p \in Serial, embedded \in embeds : Render(p, embedded)
    \/ \E p \in Serial : ApprRead(p)
    \/ \E p \in Serial : ApprDelete(p)
    \/ \E p \in Serial : ApprAppend(p)

\* submit and approve, one operation at a time: the one-item equipment, the
\* canvas component installed, signatures drawn with ink or missing, both
\* signature images embedded in the report
InitCanvas == Init /\ canvas = TRUE

Next ==
    \/ Tick
    \/ SubmitSteps({CONFIG[2].nombre}, {None, Firmado})
    \/ ApproveSteps({None, Firmado}, {TRUE})

Spec == InitCanvas /\ [][Next]_vars

\* submit alone, one operation at a time: every equipment of the configuration,
\* with and without the canvas component, every signature input
NextForm == Tick \/ SubmitSteps(list_equipos, SigInputs)

SpecForm == Init /\ [][NextForm]_vars

\* submit and approve in either revision, one operation at a time, with
\* signature images that the report can and cannot embed
InitRender ==
    /\ db = [submissions |-> <<>>, submission_items |-> <<>>,
             photos |-> <<>>, approvals |-> <<>>, users |-> <<>>]
    /\ now = 0
    /\ canvas = TRUE
    /\ deploy \in {Deployment(rev, None) : rev \in Revisions}
    /\ login = [p \in Sessions |-> None]
    /\ ses = [p \in Sessions |-> IdleSes]
    /\ out = Shown(0, "")

NextRender ==
    \/ Tick
    \/ SubmitSteps({CONFIG[2].nombre}, {Firmado})
    \/ ApproveSteps({Firmado}, BOOLEAN)
    \/ DespSteps({CONFIG[2].nombre}, {None, Firmado}, BOOLEAN)

SpecRender == InitRender /\ [][NextRender]_vars

\* the users of either revision, one operation at a time
InitUsers ==
    /\ db = [submissions |-> <<>>, submission_items |-> <<>>,
             photos |-> <<>>, approvals |-> <<>>, users |-> <<>>]
    /\ now = 0
    /\ canvas = TRUE
    /\ deploy \in {Deployment("app", None), Deployment("app", Some("r3s3t")),
                   Deployment("despachos", None)}
    /\ login = [p \in Sessions |-> None]
    /\ ses = [p \in Sessions |-> IdleSes]
    /\ out = Shown(0, "")

NextUsers ==
    \/ UserSteps(NameInputs, {"", "p1"}, {"admin123", "r3s3t", "p1"})
    \/ DespUserSteps(NameInputs, {"", "p1"}, {"admin", "p1"})

SpecUsers == InitUsers /\ [][NextUsers]_vars

\* the weekly export of both revisions over every stored history
InitExport ==
    /\ \E history \in Histories : db = StoreOf(history)
    /\ now = 0
    /\ canvas = TRUE
    /\ deploy \in {Deployment("app", None), Deployment("despachos", None)}
    /\ login = [p \in Sessions |-> None]
    /\ ses = [p \in Sessions |-> IdleSes]
    /\ out = Shown(0, "")

NextExport == ExportSteps(Days)

SpecExport == InitExport /\ [][NextExport]_vars

\* two supervisor sessions on the page "Usuarios" of src/app.py, each in a
\* script run of its own, over every users sheet of UsersTables
InitShared ==
    /\ \E users \in UsersTables :
          db = [submissions |-> <<>>, submission_items |-> <<>>,
                photos |-> <<>>, approvals |-> <<>>, users |-> users]
    /\ now = 0
    /\ canvas = TRUE
    /\ deploy = Deployment("app", None)
    /\ login = [p \in Sessions |-> Some(admin_row("admin123", 0))]
    /\ ses = [p \in Sessions |-> [IdleSes EXCEPT !.pc = "ready"]]
    /\ out = Shown(0, "")

NextShared == SharedUserSteps(OtherNames, {"", "p1"})

SpecShared == InitShared /\ [][NextShared]_vars

\* the store after one checklist of the one-item equipment was sent
OneSubmitted ==
    LET sid == make_submission_id(0, CHOOSE x \in Suffixes : TRUE)
        eq == CONFIG[2].nombre
        estado == [i \in 1..Len(get_items_for_equipo(eq)) |-> estados_opciones[1]]
    IN  [submissions |-> create_submission(<<>>, sid, eq, B64([nonwhite |-> SigThreshold]), 0),
         submission_items |-> items_rows(sid, get_items_for_equipo(eq), estado),
         photos |-> <<>>, approvals |-> <<>>, users |-> <<>>]

\* "Aprobar y generar PDF" in any session, the script runs of the sessions
\* interleaved call by call
SharedApproveSteps(sigs, embeds) ==
    \/ \E p \in Sessions, k \in KeyArgs({"exact"}) : CargarDetalle(p, k)
    \/ \E p \in Sessions, c \in Conformidad, sig \in sigs : AprobarClick(p, c, sig)
    \/ \E p \in Sessions : UpdScan(p)
    \/ \E p \in Sessions : UpdStatus(p)
    \/ \E p \in Sessions : UpdUpdatedAt(p)
    \/ \E p \in Sessions : Fetch(p)
    \/ \E p \in Sessions, embedded \in embeds : Render(p, embedded)
    \/ \E p \in Sessions : ApprRead(p)
    \/ \E p \in Sessions : ApprDelete(p)
    \/ \E p \in Sessions : ApprAppend(p)

\* two supervisor sessions on the page "Pendientes", each showing the detail
\* of the one pending submission
InitReview ==
    /\ db = OneSubmitted
    /\ now = 0
    /\ canvas = TRUE
    /\ deploy = Deployment("app", None)
    /\ login = [p \in Sessions |-> None]
    /\ ses = [p \in Sessions |->
                [IdleSes EXCEPT !.pc = "detail",
                                !.sid = Some(OneSubmitted.submissions[1].submission_id),
                                !.sub = Some(OneSubmitted.submissions[1])]]
    /\ out = Shown(0, "")

NextReview == Tick \/ SharedApproveSteps({None, Firmado}, {TRUE})

SpecReview == InitReview /\ [][NextReview]_vars

\* the store of the Despachos revision after one checklist of the one-item
\* equipment was sent
DespOneSubmitted ==
    LET sid == uuid4(<<>>)
        eq == CONFIG[2].nombre
        estado == [i \in 1..Len(get_items_for_equipo(eq)) |-> estados_opciones[1]]
    IN  [submissions |-> << [submission_id |-> sid, equipment_id |-> eq,
                             operator_signature_png_b64 |-> B64([nonwhite |-> SigThreshold]),
                             created_at |-> 0] >>,
         submission_items |-> desp_items_rows(sid, get_items_for_equipo(eq), estado),
         photos |-> <<>>, approvals |-> <<>>, users |-> <<>>]

\* src/app.py past the login form and the role test: the page "Pendientes"
\* of the supervisor branch, "Cargar detalle"
PendientesCargar(p, k) ==
    /\ deploy.rev = "app"
    /\ ses[p].pc = "ready"
    /\ IsSupervisor(p)
    /\ LET sid == Strip(k)
           sub == FirstExact(db.submissions, sid)
       IN  IF list_pending_submissions(db.submissions) = {}
           THEN /\ out' = Shown(p, "No hay pendientes")
                /\ ses' = [ses EXCEPT ![p] = IdleSes]
           ELSE IF sub = None
           THEN /\ out' = Shown(p, "No existe ese submission")
                /\ ses' = [ses EXCEPT ![p] = IdleSes]
           ELSE /\ out' = Shown(0, "")
                /\ ses' = [ses EXCEPT ![p] =
                            [IdleSes EXCEPT !.pc = "detail", !.sid = Some(sid), !.sub = sub]]
    /\ UNCHANGED <<db, now, canvas, deploy, login>>

\* the Despachos revision past main's tests: supervisor_view, tab "Pendientes"
DespPendientes(p, sid, ok, sig) ==
    /\ DespIsSupervisor(p)
    /\ DespRevisar(p, sid, ok, sig)

\* the pages behind the login form and the role test of either revision.  The
\* page approves a submission once, so the approvals sheet never holds a row
\* for the delete loop of the upsert to remove
GatedApproveSteps(sigs, embeds) ==
    \/ \E p \in Serial, k \in KeyArgs({"exact"}) : PendientesCargar(p, k)
    \/ \E p \in Serial, c \in Conformidad, sig \in sigs : AprobarClick(p, c, sig)
    \/ \E p \in Serial : UpdScan(p)
    \/ \E p \in Serial : UpdStatus(p)
    \/ \E p \in Serial : UpdUpdatedAt(p)
    \/ \E p \in Serial : Fetch(p)
    \/ \E p \in Serial, embedded \in embeds : Render(p, embedded)
    \/ \E p \in Serial : ApprRead(p)
    \/ \E p \in Serial : ApprAppend(p)
    \/ \E p \in Serial, sid \in StoredIds, ok \in BOOLEAN, sig \in sigs :
            DespPendientes(p, sid, ok, sig)
    \/ \E p \in Serial : DespAprobarClick(p)
    \/ \E p \in Serial, embedded \in embeds : DespRender(p, embedded)
    \/ \E p \in Serial : DespApprAppend(p)

\* the usernames typed into the forms of the gated pages
GateNames == {Name("admin", "lower"), Name("ope", "lower")}

\* either revision from its first script run, one checklist waiting for
\* approval: login, the role test, user administration and approve
InitGate ==
    /\ deploy \in {Deployment("app", None), Deployment("app", Some("r3s3t")),
                   Deployment("despachos", None)}
    /\ db = IF deploy.rev = "app" THEN OneSubmitted ELSE DespOneSubmitted
    /\ now = 0
    /\ canvas = TRUE
    /\ login = [p \in Sessions |-> None]
    /\ ses = [p \in Sessions |-> IdleSes]
    /\ out = Shown(0, "")

NextGate ==
    \/ UserSteps(GateNames, {"", "p1"}, {"admin123", "r3s3t", "p1"})
    \/ DespUserSteps(GateNames, {"", "p1"}, {"admin", "p1"})
    \/ GatedApproveSteps({Firmado}, {TRUE})

SpecGate == InitGate /\ [][NextGate]_vars

-----------------------------------------------------------------------------
(* Properties *)

StatusValues == {"PENDIENTE", "APROBADO"}

\* the steps of approve_submission
ApprovePcs ==
    {"upd_scan", "upd_status", "upd_updated_at", "fetch", "render", "appr_read", "appr"}

\* the rows of a table that carry a submission id
RowsOf(rows, sid) == {i \in 1..Len(rows) : rows[i].submission_id = sid}

\* C1: over any sequence of submit and approve operations a submission row is
\* created PENDIENTE, its status is never anything but PENDIENTE or APROBADO,
\* and a row that is APROBADO stays APROBADO; no row is dropped or replaced.
C1_StatusOnlyForward ==
    [][ /\ Len(db'.submissions) >= Len(db.submissions)
        /\ \A i \in 1..Len(db'.submissions) :
              /\ db'.submissions[i].status \in StatusValues
              /\ i > Len(db.submissions) => db'.submissions[i].status = "PENDIENTE"
              /\ i <= Len(db.submissions) =>
                    /\ db'.submissions[i].submission_id = db.submissions[i].submission_id
                    /\ db.submissions[i].status = "APROBADO"
                          => db'.submissions[i].status = "APROBADO" ]_vars

\* an approved submission, and a submit finished after it
C1_Witness ==
    /\ Len(db.submissions) = 2
    /\ db.submissions[1].status = "APROBADO"
    /\ db.submissions[2].status = "PENDIENTE"
    /\ out.msg = "Enviado"

\* the submission row an approve call is about, as the store had it when the
\* call was made: the row the key lookup of ws_update_row_by_key finds
StoredAtCall(p) ==
    LET before == ses[p].pre[1].submissions
        r == FindRowIdx(before, "submission_id", ses[p].sid[1])
    IN  IF r = 0 THEN None ELSE Some(before[r - 1])

\* C2: approve on a submission whose stored status is not PENDIENTE is
\* rejected: no step of the call changes the submissions or the approvals
\* table, and the call does not end as an approval.
C2_ApproveRejectsNonPending ==
    [][ \A p \in Sessions :
            ( /\ ses[p].pc \in ApprovePcs
              /\ StoredAtCall(p) # None
              /\ StoredAtCall(p)[1].status # "PENDIENTE" )
            => /\ db'.submissions = db.submissions
               /\ db'.approvals = db.approvals
               /\ ses'[p].pc = "idle" => out'.msg # "Aprobado" ]_vars

\* C3: with the operations performed one at a time, repeated approve calls
\* included, the approvals table never holds two rows with one submission_id.
C3_OneApprovalPerSubmission ==
    \A i, j \in 1..Len(db.approvals) :
        db.approvals[i].submission_id = db.approvals[j].submission_id => i = j

\* a second approve of a submission has removed the first approval row and is
\* about to append its own
C3_Witness ==
    \E p \in Sessions :
        /\ ses[p].pc = "appr"
        /\ ses[p].todel = <<>>
        /\ RowsOf(ses[p].pre[1].approvals, ses[p].sid[1]) # {}
        /\ RowsOf(db.approvals, ses[p].sid[1]) = {}

\* the form of session p has an item marked "Operativo con falla" with no file
FaultWithoutPhoto(p) ==
    \E i \in 1..Len(ses[p].estado) :
        ses[p].estado[i] = "Operativo con falla" /\ i \notin ses[p].up

\* C4: a submit whose form has an item marked "Operativo con falla" without a
\* photo is rejected and writes no row to any table; and a submit that ends
\* in success had a photo for every item so marked.
C4_FaultNeedsPhoto ==
    [][ \A p \in Sessions :
            /\ (ses[p].pc = "form" /\ FaultWithoutPhoto(p))
                  => /\ db' = db
                     /\ ses'[p].pc \in {"form", "idle"}
                     /\ out'.msg # "Enviado"
            /\ (ses[p].pc # "idle" /\ out' = Shown(p, "Enviado"))
                  => ~FaultWithoutPhoto(p) ]_vars

\* a submit was refused for a missing photo after another one had gone through
C4_Witness ==
    /\ out.msg = "Falta foto"
    /\ Len(db.submissions) = 1
    /\ Len(db.photos) >= 1

\* no signature, or an image with fewer dark pixels than the threshold
SigBlank(sig) == sig = None \/ sig[1].nonwhite < SigThreshold

\* C5: a submit whose operator signature is absent or blank (fewer non-white
\* pixels than the threshold) is rejected and writes no row, whether the
\* signature was drawn on the canvas or uploaded as an image.
C5_BlankSignatureRejected ==
    [][ \A p \in Sessions :
            (ses[p].pc = "form" /\ SigBlank(ses[p].sig))
                => /\ db' = db
                   /\ ses'[p].pc \in {"form", "idle"} ]_vars

\* session p has made the last write of a submit
SubmitDone(p) ==
    /\ ses[p].pc = "photos"
    /\ ses[p].todel = <<>>
    /\ ses[p].photos = <<>>

\* C6: when a submit for an equipment of n items has made its last write, the
\* store holds, next to what it held before, one new submission row, PENDIENTE,
\* whose id no earlier row carried, n item rows with that id in checklist
\* order, and one photo row with that id per item that had a file; the rows
\* that were there before are all still there, unchanged.
C6_SubmitAddsExactlyItsRows ==
    \A p \in Sessions : SubmitDone(p) =>
        LET before == ses[p].pre[1]
            sid == ses[p].sid[1]
            items == get_items_for_equipo(ses[p].equipo)
            n == Len(before.submissions)
            Mine(r) == r.submission_id = sid
            Other(r) == r.submission_id # sid
            mine_items == SelectSeq(db.submission_items, Mine)
            mine_photos == SelectSeq(db.photos, Mine)
        IN  /\ RowsOf(before.submissions, sid) = {}
            /\ Len(db.submissions) = n + 1
            /\ SubSeq(db.submissions, 1, n) = before.submissions
            /\ db.submissions[n + 1].submission_id = sid
            /\ db.submissions[n + 1].status = "PENDIENTE"
            /\ Len(mine_items) = Len(items)
            /\ \A i \in 1..Len(items) : mine_items[i].item_id = items[i]
            /\ Len(mine_photos) = Cardinality(ses[p].up)
            /\ \A i \in ses[p].up :
                  \E j \in 1..Len(mine_photos) : mine_photos[j].item_id = items[i]
            /\ SelectSeq(db.submission_items, Other) = before.submission_items
            /\ SelectSeq(db.photos, Other) = before.photos
            /\ db.approvals = before.approvals

\* no operation is under way
AllIdle == \A p \in Sessions : ses[p].pc = "idle"

\* C7: whenever every submit and approve begun has completed, for every stored
\* submission and each of its item rows, a photo row with the same
\* submission_id and item_id exists exactly if the item's stored state is
\* "Operativo con falla".
C7_PhotoIffFault ==
    AllIdle =>
        \A s \in 1..Len(db.submissions), i \in 1..Len(db.submission_items) :
            db.submission_items[i].submission_id = db.submissions[s].submission_id
            => ( (\E j \in 1..Len(db.photos) :
                     /\ db.photos[j].submission_id = db.submission_items[i].submission_id
                     /\ db.photos[j].item_id = db.submission_items[i].item_id)
                 <=> db.submission_items[i].estado = "Operativo con falla" )

\* two submits and an approve have completed; one item is stored with a fault
\* and its photo, the other without either
C7_Witness ==
    /\ AllIdle
    /\ Len(db.approvals) = 1
    /\ Len(db.submission_items) = 2
    /\ Len(db.photos) = 1
    /\ \E i \in 1..2 : db.submission_items[i].estado = "Inoperativo"

\* C8: an approve_submission call that returns, made with either value of
\* conforme for a submission stored as PENDIENTE, leaves that submission
\* APROBADO and exactly one approvals row with its submission_id; the row's
\* pdf_b64 is not empty and its conforme is the value passed.
C8_ApproveWritesOneApproval ==
    [][ \A p \in Sessions :
            ( /\ ses[p].pc = "appr"
              /\ ses'[p].pc = "idle"
              /\ StoredAtCall(p) # None
              /\ StoredAtCall(p)[1].status = "PENDIENTE" )
            => LET sid == ses[p].sid[1]
                   sub == FirstExact(db'.submissions, sid)
                   mine == RowsOf(db'.approvals, sid)
               IN  /\ out' = Shown(p, "Aprobado")
                   /\ ses[p].conforme \in Conformidad
                   /\ sub # None
                   /\ sub[1].status = "APROBADO"
                   /\ Cardinality(mine) = 1
                   /\ \A i \in mine :
                         /\ db'.approvals[i].pdf_b64 # <<>>
                         /\ db'.approvals[i].conforme = ses[p].conforme ]_vars

\* a submission that was PENDIENTE is being approved as "No conforme": its
\* status is written and the approval row is about to be appended
C8_Witness ==
    \E p \in Sessions :
        /\ ses[p].pc = "appr"
        /\ ses[p].todel = <<>>
        /\ ses[p].conforme = "No conforme"
        /\ StoredAtCall(p) # None
        /\ StoredAtCall(p)[1].status = "PENDIENTE"
        /\ FirstExact(db.submissions, ses[p].sid[1])[1].status = "APROBADO"

\* the two errors approve_submission raises when it finds no submission
NotFoundErrors ==
    {"RuntimeError: No pude actualizar status", "RuntimeError: No encontre submission"}

\* C9: when approve_submission raises because the status update found no row,
\* or because the fetch after it found no submission, the submissions and the
\* approvals table are what they were when the call was made.
C9_NotFoundWritesNothing ==
    [][ \A p \in Sessions :
            ( /\ ses[p].pc \in ApprovePcs
              /\ ses'[p].pc = "idle"
              /\ out'.msg \in NotFoundErrors )
            => /\ db'.submissions = ses[p].pre[1].submissions
               /\ db'.approvals = ses[p].pre[1].approvals ]_vars

\* C10: in every state, those between two row writes of a submit included,
\* every submission_items row and every photos row carries the submission_id
\* of a row of submissions.
C10_NoOrphanRows ==
    /\ \A i \in 1..Len(db.submission_items) :
          RowsOf(db.submissions, db.submission_items[i].submission_id) # {}
    /\ \A i \in 1..Len(db.photos) :
          RowsOf(db.submissions, db.photos[i].submission_id) # {}

\* a submit has written its submission row and the first of two item rows
C10_Witness ==
    \E p \in Sessions :
        /\ ses[p].pc = "items"
        /\ Len(ses[p].rows) = 1
        /\ ses[p].photos # <<>>
        /\ RowsOf(db.submission_items, ses[p].sid[1]) # {}
        /\ RowsOf(db.photos, ses[p].sid[1]) = {}

\* the stored status of the submission an id names: that of the row
\* get_submission_detail returns for it, "" when there is none
StoredStatus(sid) ==
    LET sub == FirstExact(db.submissions, sid)
    IN  IF sub = None THEN "" ELSE sub[1].status

\* C11: approve_submission sets the status, then fetches, then renders, then
\* replaces the approval row: in every state, those between two of its steps
\* included, a call that is past the status write finds its submission
\* APROBADO, a call at the approvals upsert has fetched and rendered, and
\* every approvals row names a submission whose stored status is APROBADO.
C11_ApprovalOnlyAfterStatus ==
    /\ \A i \in 1..Len(db.approvals) :
          StoredStatus(db.approvals[i].submission_id) = "APROBADO"
    /\ \A p \in Sessions :
          /\ ses[p].pc \in {"render", "appr_read", "appr"}
                => /\ StoredStatus(ses[p].sid[1]) = "APROBADO"
                   /\ ses[p].sub # None
          /\ ses[p].pc \in {"appr_read", "appr"} => ses[p].pdf # <<>>

\* a first approve has set the status, fetched and rendered, and has not yet
\* written the approval row
C11_Witness ==
    \E p \in Sessions :
        /\ ses[p].pc = "appr"
        /\ StoredAtCall(p) # None
        /\ StoredAtCall(p)[1].status = "PENDIENTE"
        /\ StoredStatus(ses[p].sid[1]) = "APROBADO"
        /\ RowsOf(db.approvals, ses[p].sid[1]) = {}
        /\ RowsOf(ses[p].pre[1].approvals, ses[p].sid[1]) = {}

\* C12: rendering the report never makes an approve fail, whether or not the
\* signature images can be embedded: the step that renders leads to the
\* write of the approval row with a report that is not empty, and that write
\* stores the report.
C12_RenderNeverFailsApprove ==
    [][ \A p \in Sessions :
            /\ (ses[p].pc \in {"render", "d_render"} /\ ses'[p] # ses[p])
                  => /\ ses'[p].pc \in {"appr_read", "d_appr"}
                     /\ ses'[p].pdf # <<>>
            /\ (ses[p].pc \in {"appr", "d_appr"} /\ ses'[p].pc = "idle")
                  => \E i \in 1..Len(db'.approvals) :
                        /\ db'.approvals[i].submission_id = ses[p].sid[1]
                        /\ db'.approvals[i].pdf_b64 = ses[p].pdf
                        /\ db'.approvals[i].pdf_b64 # <<>> ]_vars

\* the stored activity flag of a users row says "true"
StoredActive(row) ==
    IF deploy.rev = "app" THEN row.is_active = CellBool(TRUE)
    ELSE row.active = PyStr(TRUE)

\* the last login attempt of session p was answered with a user
LoggedInBy(p) ==
    /\ login[p] # None
    /\ ses[p].form # None
    /\ out = Shown(p, "Sesion iniciada")

\* C13: authenticate returns a user only when a users row matches the
\* username typed, that row's stored activity flag is true and its stored
\* hash is the hash of the password typed; a user whose stored flag is false
\* is never logged in.
C13_LoginOnlyActiveMatching ==
    \A p \in Sessions :
        LoggedInBy(p) =>
            \E i \in 1..Len(db.users) :
                /\ StripLower(db.users[i].username) = StripLower(ses[p].form[1].username)
                /\ db.users[i].username = login[p][1].username
                /\ StoredActive(db.users[i])
                /\ db.users[i].password_hash = hash_password(ses[p].form[1].pw)

\* the positions of a "Guardar usuario" in progress
GuardarPcs == {"usr_append", "usr_scan", "usr_upd", "d_usr_write"}

\* the stored activity flag of a users row
ActiveCell(row) == IF deploy.rev = "app" THEN row.is_active ELSE row.active

\* the text a revision stores for the box "Activo"
WrittenBool(b) == IF deploy.rev = "app" THEN CellBool(b) ELSE PyStr(b)

\* two usernames name the same user in the revision deployed
SameUser(a, b) == IF deploy.rev = "app" THEN StripLower(a) = StripLower(b) ELSE a = b

\* the rows of a users table that hold the user named
RowsOfUser(users, username) ==
    Ascending({j \in 1..Len(users) : SameUser(users[j].username, username)})

\* what "Guardar usuario" with the form f has to make of the users table
\* before to give the table after
SavedAsClaimed(before, after, f) ==
    LET hits == RowsOfUser(before, f.username)
    IN  IF hits # <<>>
        THEN /\ Len(after) = Len(before)
             /\ \A j \in 1..Len(before) : j # hits[1] => after[j] = before[j]
             /\ after[hits[1]].username = before[hits[1]].username
             /\ after[hits[1]].created_at = before[hits[1]].created_at
             /\ after[hits[1]].role = f.role
             /\ ActiveCell(after[hits[1]]) = WrittenBool(f.active)
             /\ deploy.rev = "app" => after[hits[1]].full_name = f.full_name
             /\ after[hits[1]].password_hash =
                    IF f.pw # "" THEN hash_password(f.pw)
                    ELSE before[hits[1]].password_hash
        ELSE \/ after = before
             \/ /\ f.pw # ""
                /\ Len(after) = Len(before) + 1
                /\ SubSeq(after, 1, Len(before)) = before
                /\ after[Len(after)].username = f.username
                /\ after[Len(after)].password_hash = hash_password(f.pw)

\* C14: "Guardar usuario" on an existing username overwrites role, full name
\* and activity flag of that row in place, and the password hash only when a
\* password was typed; on a new username it appends one row, and only when a
\* password was typed.
C14_SaveUserUpsert ==
    [][ \A p \in Sessions :
          /\ ( /\ ses[p].pc \in GuardarPcs
               /\ ses'[p].pc = "idle" )
                => SavedAsClaimed(ses[p].pre[1].users, db'.users, ses[p].form[1])
          /\ ( /\ ses[p].pc \notin GuardarPcs
               /\ ses'[p].pc = "idle"
               /\ ses'[p].form # None
               /\ ses'[p].form # ses[p].form
               /\ "role" \in DOMAIN ses'[p].form[1] )
                => SavedAsClaimed(db.users, db'.users, ses'[p].form[1]) ]_vars

\* a users row of the administrator, whatever the letter case of its name
IsAdminRow(row) == StripLower(row.username) = Name("admin", "lower")

\* C15: the delete-user operation never removes a row whose username is
\* "admin" in any letter case: every such row is still stored after the
\* deleting step.
C15_DeleteKeepsAdmin ==
    [][ \A p \in Sessions :
          ses[p].pc \in {"usr_del", "d_usr_del"} =>
              \A i \in 1..Len(db.users) :
                  IsAdminRow(db.users[i]) =>
                      \E j \in 1..Len(db'.users) : db'.users[j] = db.users[i] ]_vars

\* the positions of the bootstrap in progress
BootstrapPcs == {"seed_append", "seed_scan", "seed_upd", "d_boot"}

\* the bootstrap on the users table before gave the table after as claimed
SeededAsClaimed(before, after) ==
    IF before = <<>>
    THEN Len(after) = 1 /\ IsAdminRow(after[1])
    ELSE Len(after) = Len(before)

\* C16: the bootstrap appends an admin row exactly when the users table is
\* empty at that moment: one admin row on an empty table, no row on a table
\* that holds a user.
C16_SeedIffEmpty ==
    [][ \A p \in Sessions :
          /\ ( /\ ses[p].pc \in BootstrapPcs
               /\ ses'[p].pc \in {"ready", "idle"} )
                => SeededAsClaimed(ses[p].pre[1].users, db'.users)
          /\ ( /\ ses[p].pc = "idle"
               /\ ses'[p].pc = "ready" )
                => SeededAsClaimed(db.users, db'.users) ]_vars

\* session p holds the answer of an export over the range of its form
Exported(p) ==
    /\ ses[p].form # None
    /\ "start" \in DOMAIN ses[p].form[1]
    /\ ses[p].form[1].start <= ses[p].form[1].end

\* the ids of the stored submissions dated within [start, end]
IdsInRange(start, end) ==
    {db.submissions[i].submission_id : i \in
        {j \in 1..Len(db.submissions) :
            /\ db.submissions[j].date.iso >= start
            /\ db.submissions[j].date.iso <= end}}

\* the sheet holds exactly the rows of the stored table whose submission is
\* one of ids, each as often as the table holds it
SheetIsExactly(sheet, table, ids) ==
    /\ IdsOf(sheet) = IdsOf(table) \cap ids
    /\ \A id \in ids :
          Cardinality({i \in 1..Len(sheet) : sheet[i].submission_id = id})
            = Cardinality({i \in 1..Len(table) : table[i].submission_id = id})

\* the sheet of a workbook, None when the workbook (or the sheet) is missing
SheetOf(xlsx, name) ==
    IF xlsx = None THEN None
    ELSE IF name \notin DOMAIN xlsx[1] THEN None
    ELSE Some(xlsx[1][name])

\* C17: the export over [start, end] holds in its submissions sheet exactly
\* the submissions dated within the range, in its items sheet exactly their
\* item rows and in its approvals sheet exactly their approval rows; a
\* submission dated outside the range is in none of the three sheets.
C17_ExportExactlyRange ==
    \A p \in Sessions :
        Exported(p) =>
            LET ids == IdsInRange(ses[p].form[1].start, ses[p].form[1].end)
                subs == SheetOf(ses[p].xlsx, "submissions")
                items == SheetOf(ses[p].xlsx, "items")
                approvals == SheetOf(ses[p].xlsx, "approvals")
            IN  /\ subs # None /\ SheetIsExactly(subs[1], db.submissions, ids)
                /\ items # None /\ SheetIsExactly(items[1], db.submission_items, ids)
                /\ approvals # None /\ SheetIsExactly(approvals[1], db.approvals, ids)

\* C18: every export, also over an empty store and over a range that holds
\* no submission, gives a workbook with the sheets submissions, items and
\* approvals.
C18_ExportHasThreeSheets ==
    \A p \in Sessions :
        Exported(p) =>
            /\ ses[p].xlsx # None
            /\ {"submissions", "items", "approvals"} \subseteq DOMAIN ses[p].xlsx[1]

\* session p holds the week computed for the reference day of its form
WeekComputed(p) ==
    /\ ses[p].form # None
    /\ "any_day" \in DOMAIN ses[p].form[1]

\* C19 as stated: for every reference day, Monday through Sunday, the week
\* computed has Monday <= reference <= Saturday.
C19_ReferenceInsideWeek ==
    \A p \in Sessions :
        WeekComputed(p) =>
            /\ ses[p].form[1].start <= ses[p].form[1].any_day
            /\ ses[p].form[1].any_day <= ses[p].form[1].end

\* C19 amended: the week computed begins on the Monday on or before the
\* reference day and ends on the Saturday five days later; the reference day
\* is at most six days after that Monday, and it lies within Monday..Saturday
\* exactly when it is not a Sunday (a Sunday is the day after the Saturday).
C19_WeekOfReference ==
    \A p \in Sessions :
        WeekComputed(p) =>
            LET f == ses[p].form[1]
            IN  /\ weekday(f.start) = 0
                /\ f.end = f.start + 5
                /\ f.start <= f.any_day
                /\ f.any_day <= f.start + 6
                /\ (f.any_day <= f.end) <=> (weekday(f.any_day) # 6)

\* a week was computed for a Sunday
C19_Witness ==
    \E p \in Sessions :
        /\ WeekComputed(p)
        /\ weekday(ses[p].form[1].any_day) = 6
        /\ ses[p].form[1].end = ses[p].form[1].any_day - 1

\* a submissions row with its status and updated_at blanked
FrameOf(row) == [row EXCEPT !.status = "", !.updated_at = 0]

\* C20: approve changes only the status and the updated_at field of the
\* submission row it is called for: in every step of approve each other field
\* of that row, each other submissions row and each item and photo row stays
\* as it is.
C20_ApproveFrame ==
    [][ \A p \in Sessions :
          ses[p].pc \in ApprovePcs =>
              /\ db'.submission_items = db.submission_items
              /\ db'.photos = db.photos
              /\ Len(db'.submissions) = Len(db.submissions)
              /\ \A i \in 1..Len(db.submissions) :
                    /\ FrameOf(db'.submissions[i]) = FrameOf(db.submissions[i])
                    /\ db'.submissions[i] # db.submissions[i] =>
                          StripLower(db.submissions[i].submission_id)
                              = StripLower(ses[p].sid[1]) ]_vars

\* an approve has ended with its approval row written for a submission that
\* has item and photo rows, next to another submission that is still pending
C20_Witness ==
    \E p \in Sessions :
        /\ out = Shown(p, "Aprobado")
        /\ ses[p].pc = "idle"
        /\ \E i, j \in 1..Len(db.submissions) :
              /\ db.submissions[i].status = "APROBADO"
              /\ db.submissions[j].status = "PENDIENTE"
              /\ RowsOf(db.approvals, db.submissions[i].submission_id) # {}
              /\ RowsOf(db.submission_items, db.submissions[i].submission_id) # {}
              /\ RowsOf(db.photos, db.submissions[i].submission_id) # {}

\* the tables of submit and approve
WorkTables == {"submissions", "submission_items", "photos", "approvals"}

\* how many rows of a table carry a submission id
CountOf(rows, sid) == Cardinality(RowsOf(rows, sid))

\* C21: over submit and approve operations no row of the submissions,
\* submission_items, photos or approvals table is ever removed: no step
\* lowers the number of rows a table holds for a submission id.
C21_NoRowRemoved ==
    [][ \A t \in WorkTables :
          \A i \in 1..Len(db[t]) :
              CountOf(db'[t], db[t][i].submission_id)
                  >= CountOf(db[t], db[t][i].submission_id) ]_vars

\* the data rows of a table whose submission_id matches a key
KeyMatches(rows, key) ==
    {i \in 1..Len(rows) : StripLower(rows[i].submission_id) = StripLower(key)}

\* the first of a non-empty set of row numbers
FirstOf(S) == CHOOSE i \in S : \A j \in S : i <= j

\* C22: ws_update_row_by_key finds the first row whose key matches; when there
\* is one it overwrites only the named fields (status, updated_at) of that row,
\* leaves its other fields and every other row as they are and returns true
\* (approve goes on); when the table is empty or no row matches it returns
\* false (approve raises) and nothing is changed.
C22_UpdateByKey ==
    [][ \A p \in Sessions :
          /\ ses[p].pc = "upd_scan" =>
                /\ db' = db
                /\ IF KeyMatches(db.submissions, ses[p].sid[1]) = {}
                   THEN /\ ses'[p].pc = "idle"
                        /\ out' = Shown(p, "RuntimeError: No pude actualizar status")
                   ELSE ses'[p].pc = "upd_status"
          /\ (ses[p].pc = "upd_updated_at" /\ ses'[p].pc = "fetch") =>
                LET before == ses[p].pre[1].submissions
                    first == FirstOf(KeyMatches(before, ses[p].sid[1]))
                IN  /\ KeyMatches(before, ses[p].sid[1]) # {}
                    /\ Len(db'.submissions) = Len(before)
                    /\ \A i \in 1..Len(before) :
                          db'.submissions[i] =
                              IF i = first
                              THEN [before[i] EXCEPT !.status = "APROBADO",
                                                     !.updated_at = ses[p].t0]
                              ELSE before[i] ]_vars

\* the update of approve has returned true on a table that holds two rows with
\* the key asked for: the first is written, the second is as it was
C22_Witness ==
    \E p \in Sessions :
        /\ ses[p].pc = "fetch"
        /\ Len(db.submissions) = 2
        /\ KeyMatches(db.submissions, ses[p].sid[1]) = {1, 2}
        /\ ses[p].pre[1].submissions[1].status = "PENDIENTE"
        /\ db.submissions[1].status = "APROBADO"
        /\ db.submissions[2] = ses[p].pre[1].submissions[2]

\* a table without the rows of a submission id
Without(rows, sid) ==
    LET Other(r) == Strip(r.submission_id) # sid
    IN  SelectSeq(rows, Other)

\* C23: the child-row upsert for a submission_id deletes every stored row of
\* that id and appends the new rows: once its deletes are done, the table with
\* the rows still to append is the table before without the rows of the id,
\* followed by the new rows in their order (so at the end the rows of the id
\* are the new rows, the rows of other ids are as before, in their order), and
\* an upsert on a table that an equal upsert has already written ends with
\* that same table.
C23_ChildUpsert ==
    \A p \in Sessions :
        LET sid == ses[p].sid[1]
            items == get_items_for_equipo(ses[p].equipo)
            before == ses[p].pre[1]
            new_items == items_rows(sid, items, ses[p].estado)
            new_photos == photos_rows(sid, items, ses[p].estado, ses[p].up)
        IN  /\ (ses[p].pc = "items" /\ ses[p].todel = <<>>) =>
                  /\ db.submission_items \o ses[p].rows
                        = Without(before.submission_items, sid) \o new_items
                  /\ ( /\ ses[p].rows = <<>>
                       /\ before.submission_items
                            = Without(before.submission_items, sid) \o new_items )
                        => db.submission_items = before.submission_items
            /\ (ses[p].pc = "photos" /\ ses[p].todel = <<>>) =>
                  /\ db.photos \o ses[p].photos
                        = Without(before.photos, sid) \o new_photos
                  /\ ( /\ ses[p].photos = <<>>
                       /\ before.photos = Without(before.photos, sid) \o new_photos )
                        => db.photos = before.photos

\* an upsert of two item rows has ended on a table that already held these two
\* rows for the same id, written by an equal upsert
C23_Witness ==
    \E p \in Sessions :
        /\ ses[p].pc = "items"
        /\ ses[p].todel = <<>>
        /\ ses[p].rows = <<>>
        /\ Len(get_items_for_equipo(ses[p].equipo)) >= 2
        /\ ses[p].pre[1].submission_items
              = items_rows(ses[p].sid[1], get_items_for_equipo(ses[p].equipo),
                           ses[p].estado)
        /\ db.submission_items = ses[p].pre[1].submission_items

\* C24: every key lookup compares keys without regard to letter case and
\* returns the first matching row: the submission lookup of approve
\* (get_submission_detail) returns the first row whose submission_id equals
\* the key up to letter case, the row that update-by-key selected for it.
C24_LookupIgnoresCase ==
    [][ \A p \in Sessions :
          (ses[p].pc = "fetch" /\ ses'[p] # ses[p]) =>
              LET hits == KeyMatches(db.submissions, ses[p].sid[1])
              IN  /\ hits # {}
                  /\ ses'[p].pc = "render"
                  /\ ses'[p].sub = Some(db.submissions[FirstOf(hits)])
                  /\ FirstOf(hits) = ses[p].row_idx - 1 ]_vars

\* C25: after any sequence of submits no two submissions rows carry the same
\* submission_id, also when two submits fall into the same second.
C25_UniqueSubmissionIds ==
    \A i, j \in 1..Len(db.submissions) :
        i # j => db.submissions[i].submission_id # db.submissions[j].submission_id

\* the data row at sheet row r, as a sequence of at most one row
RowAt(rows, r) == IF r - 1 \in 1..Len(rows) THEN Some(rows[r - 1]) ELSE None

\* the rows of a table with the cells of sheet row r left out
ExceptRow(rows, r) == [i \in (1..Len(rows)) \ {r - 1} |-> rows[i]]

C27_OneApprovalAfterBoth ==
    AllIdle =>
        \A i \in 1..Len(db.submissions) :
            CountOf(db.approvals, db.submissions[i].submission_id) <= 1

\* C28: in every state where no operation is in progress, also after an
\* approve call that raised part-way, a submission's status is APROBADO
\* exactly when the approvals table holds a row with its submission_id and a
\* non-empty report.
C28_ApprovedIffReport ==
    AllIdle =>
        \A i \in 1..Len(db.submissions) :
            (db.submissions[i].status = "APROBADO")
                <=> (\E j \in 1..Len(db.approvals) :
                        /\ db.approvals[j].submission_id = db.submissions[i].submission_id
                        /\ db.approvals[j].pdf_b64 # <<>>)

\* no two rows of the users table carry usernames that are equal when case and
\* surrounding whitespace are ignored
UsernamesUnique(users) ==
    \A i, j \in 1..Len(users) :
        i # j => StripLower(users[i].username) # StripLower(users[j].username)

\* C29: after any sequence of "Guardar usuario" and "Eliminar" performed one
\* at a time, no two users rows have usernames equal ignoring case and
\* surrounding whitespace, and when "Eliminar" of an existing user other than
\* admin has finished, the lookup of that username finds no row.
C29_UsernamesUniqueDeleteRemoves ==
    [][ /\ UsernamesUnique(db.users) => UsernamesUnique(db'.users)
        /\ \A p \in Serial :
              (ses[p].pc \in {"usr_del", "d_usr_del"} /\ ses'[p].pc = "idle") =>
                  get_user(db'.users, ses[p].form[1].username) = None ]_vars

\* the positions at which a session calls approve, or creates, updates or
\* deletes a user
SupervisorOps ==
    {"upd_scan", "usr_append", "usr_scan", "usr_del",
     "d_render", "d_boot", "d_usr_write", "d_usr_del"}

\* the role the users table holds for the user logged in in session p, None
\* when nobody is logged in or the table has no row for the user
StoredRole(p) ==
    IF login[p] = None THEN None
    ELSE IF deploy.rev = "app"
    THEN LET u == get_user(db.users, login[p][1].username)
         IN  IF u = None THEN None ELSE Some(u[1].role)
    ELSE LET hits == desp_user_rows(db.users, login[p][1].username)
         IN  IF hits = <<>> THEN None ELSE Some(db.users[hits[1]].role)

\* C30: approve and the creation, update and deletion of a user are executed
\* only in a session with a logged-in user whose stored role is supervisor: a
\* session without a login, or of a user with another role, never begins one
\* of them.
C30_OnlySupervisors ==
    [][ \A p \in Serial :
          (ses[p].pc \notin SupervisorOps /\ ses'[p].pc \in SupervisorOps) =>
              StoredRole(p) = Some("supervisor") ]_vars

=============================================================================
